---- MODULE Spec2Model ----
(***************************************************************************)
(* A model of Maizone: the cookie manager (cookie_manager.py), the gtk     *)
(* derivation (qzone_api.py) and the feed monitor with its silent-period   *)
(* policy (scheduled_tasks.py).                                            *)
(*                                                                         *)
(* Strings the code inspects character by character (the silent-hours      *)
(* configuration, the skey) are sequences of characters; opaque strings    *)
(* (method names, feed ids, cookie bundles) are TLA+ strings.              *)
(***************************************************************************)
EXTENDS Integers, Sequences, FiniteSets, TLC

VARIABLES
    \* ---- cookie_manager.py
    cookie_methods,       \* the configuration plugin.cookie_methods
    now,                  \* time.time(), in hours
    last_qr_login_time,   \* the module global _last_qr_login_time (0: never)
    cookie_file,          \* the content of cookies-<uin>.json, NoFile when absent
    renew_call,           \* what the last call of renew_cookies did (its inputs, trace and result)
    qr_success_time,      \* history: when login_via_qrcode last returned a bundle (0: never)
    refresh_time,         \* history: when renew_cookies last persisted a bundle (0: never)
    renewing,             \* per caller, where its call of renew_cookies is suspended:
                          \* "idle" (no call) or "await" in the strategy at position i
    \* ---- qzone_api.py generate_gtk
    skey,                 \* the argument, a sequence of code points
    gtk,                  \* the returned decimal string, <<>> before the call
    \* ---- scheduled_tasks.py _is_in_silent_period
    silent_periods,       \* history: the periods the configuration was written from
    silent_hours,         \* the configuration monitor.silent_hours, a sequence of characters
    like_during_silent,   \* the configuration monitor.like_during_silent
    comment_during_silent,\* the configuration monitor.comment_during_silent
    minute_of_day,        \* datetime.now(): hour * 60 + minute
    silent_result,        \* the tuple the call returned, <<>> before it
    \* ---- scheduled_tasks.py FeedMonitor
    is_running,           \* self.is_running
    task,                 \* where self.task waits: "none" (no task), "sleep", "read",
                          \* "feeds", "reply", "backoff"
    processed_list,       \* the dict of _monitor_loop: the feed ids, in insertion order
    processed_comments,   \* the dict of _monitor_loop: [fid, tids] in insertion order
    file_processed_list,      \* the content of processed_list.json
    file_processed_comments,  \* the content of processed_comments.json
    feeds_list,           \* check_feeds: the feeds from the current one on
    list_to_reply,        \* check_feeds: the comments from the current one on
    comment_writes,       \* history: the comments comment_feed posted under watched_fid
    like_writes,          \* history: the likes like_feed put on watched_fid
    inserted_feeds,       \* history: the last keys inserted in processed_list
    inserted_threads,     \* history: the last keys inserted in processed_comments
    pinned_feeds,         \* the list a remote that never changes answers with
    \* ---- scheduled_tasks.py ScheduleSender
    sender_is_running,    \* self.is_running
    sender_task,          \* where self.task is: "none" (no task), "tick" (at the head of
                          \* a round), "send" (in send_scheduled_feed), "sleep"
    schedule_times,       \* the configuration schedule.schedule_times
    probability,          \* the configuration schedule.probability
    clock,                \* time.time() and datetime.now(), in half minutes
    fluctuate_table,      \* self.fluctuate_table
    last_reset_date,      \* self.last_reset_date
    today_send_enabled,   \* self.today_send_enabled
    last_send_time,       \* self.last_send_time
    loop_current_time,    \* _schedule_loop: current_time of the round
    wake_time,            \* when the pending asyncio.sleep(60) ends
    fired_date,           \* history: the date of the last send
    fired_minutes,        \* history: the times send_scheduled_feed was invoked for on
                          \* fired_date
    refired,              \* history: some time was sent for twice on one date
    send_result,          \* history: how the last send_scheduled_feed ended: "none",
                          \* "running", "returned", "raised", "cancelled"
    \* start() and stop() of the two schedulers
    monitor_call,         \* FeedMonitor: "none", then the last call that returned,
                          \* "start" or "stop", or "stopping" while stop() awaits the task
    cancelled_at,         \* FeedMonitor: where the last cancellation met the loop,
                          \* "restarted" once a start() has created a loop after it
    alive,                \* history: the number of _monitor_loop tasks not done
    sender_call,          \* ScheduleSender: as monitor_call
    sender_alive,         \* history: the number of _schedule_loop tasks not done
    passes,               \* history: the parity of the number of check_feeds calls
    \* get_list and ReadFeedAction
    read_call,            \* the last call: its target, the answer of the remote, what
                          \* get_list gave, the writes issued, the dedup file before
    \* publish_emotion and reply
    api_call              \* the last call: its op, "publish" or "reply", the answer of
                          \* the remote and what the call gave

cookieVars == <<cookie_methods, now, last_qr_login_time, cookie_file, renew_call, qr_success_time,
                refresh_time, renewing>>
gtkVars == <<skey, gtk>>
silentVars == <<silent_periods, silent_hours, like_during_silent, comment_during_silent,
                minute_of_day, silent_result>>
monitorVars == <<is_running, task, processed_list, processed_comments, file_processed_list,
                 file_processed_comments, feeds_list, list_to_reply, comment_writes,
                 like_writes, inserted_feeds, inserted_threads, pinned_feeds>>
senderVars == <<sender_is_running, sender_task, schedule_times, probability, clock,
                fluctuate_table, last_reset_date, today_send_enabled, last_send_time,
                loop_current_time, wake_time, fired_date, fired_minutes, refired, send_result>>
lifecycleVars == <<monitor_call, cancelled_at, alive, sender_call, sender_alive, passes>>
vars == <<cookieVars, gtkVars, silentVars, monitorVars, senderVars, lifecycleVars, read_call,
          api_call>>

None == "None"
NoFile == "NoFile"

(***************************************************************************)
(* cookie_manager.py                                                       *)
(***************************************************************************)

\* Longest configured method list the calls are drawn from.
MaxMethods == 2

\* The thresholds of renew_cookies and should_skip_qr_login, in hours.
MinRefreshHours == 1
QrCooldownHours == 20

\* The instants (hours) the clock visits: their differences fall below and at
\* both thresholds (0 and 1 hour, 19 and 20 hours).
ClockPoints == {1, 1 + MinRefreshHours, 1 + QrCooldownHours}

COOKIE_METHODS == <<"napcat", "clientkey", "qrcode", "local">>
DefaultMethods == <<"napcat", "clientkey", "qrcode", "local">>

\* Method names a configuration may hold; "bogus" is not a supported one.
MethodNames == {"napcat", "clientkey", "qrcode", "local", "bogus"}

Range(s) == {s[i] : i \in 1..Len(s)}

\* Configured lists: distinct names, in any order; NoMethods stands for methods = None.
NoMethods == <<None>>
MethodLists == {NoMethods} \cup {m \in UNION {[1..n -> MethodNames] : n \in 0..MaxMethods} :
                               \A i, j \in 1..Len(m) : i # j => m[i] # m[j]}

\* The bundle each remote strategy returns when it succeeds.
BundleOf(method) == "ck_" \o method

\* A read that never finds the file.
read_local_cookies_missing(file) == None

should_skip_qr_login(last, current_time) ==
    IF last = 0 THEN FALSE ELSE (current_time - last) < QrCooldownHours

\* read_local_cookies: the file's content, or None for the FileNotFoundError.
read_local_cookies(file) == IF file = NoFile THEN None ELSE file

valid_methods(methods) ==
    LET given == IF methods = NoMethods THEN DefaultMethods ELSE methods
        valid == SelectSeq(given, LAMBDA m : m \in Range(COOKIE_METHODS))
    IN  IF valid = <<>> THEN DefaultMethods ELSE valid

RemoteMethods == {"napcat", "clientkey", "qrcode"}

\* One strategy's attempt: the bundle, or None when it raised. up is the set of
\* remote strategies that answer during this call; the local strategy depends on
\* the file alone.
Acquire(method, up, file) ==
    IF method = "local" THEN read_local_cookies(file)
    ELSE IF method \in up THEN BundleOf(method) ELSE None

\* A loop that does not stop at the first success: a later strategy overrides it.
RECURSIVE StrategyLoopNoBreak(_, _, _, _)
StrategyLoopNoBreak(valid, up, i, st) ==
    IF i > Len(valid) THEN st
    ELSE LET got == Acquire(valid[i], up, st.file)
             tried == [st EXCEPT !.attempts = Append(@, valid[i]),
                                 !.results = Append(@, got)]
         IN  StrategyLoopNoBreak(valid, up, i + 1,
                 IF got # None THEN [tried EXCEPT !.cookie_dict = got] ELSE tried)

\* The loop over valid_methods from position i. st carries cookie_dict, last_error,
\* _last_qr_login_time and the trace: the strategies attempted, in order, and
\* whether the qrcode strategy was skipped by its cooldown.
RECURSIVE StrategyLoop(_, _, _, _)
StrategyLoop(valid, up, i, st) ==
    IF i > Len(valid) THEN st
    ELSE LET method == valid[i] IN
         IF method = "qrcode" /\ should_skip_qr_login(st.last_qr, st.at)
         THEN StrategyLoop(valid, up, i + 1, [st EXCEPT !.qr_skipped = TRUE])
         ELSE LET got == Acquire(method, up, st.file)
                  tried == [st EXCEPT !.attempts = Append(@, method),
                                      !.results = Append(@, got),
                                      !.reads = IF method = "local" THEN @ + 1 ELSE @]
              IN  IF got # None
                  THEN [tried EXCEPT !.cookie_dict = got,
                                     \* login_via_qrcode calls update_last_qr_login_time
                                     !.last_qr = IF method = "qrcode" THEN st.at ELSE @,
                                     !.qr_ok = (method = "qrcode")]
                  ELSE StrategyLoop(valid, up, i + 1, [tried EXCEPT !.last_error = TRUE])

\* renew_call before any call.
NoCall == [outcome |-> "none", fallback |-> TRUE, at |-> 0,
           pre_last_qr |-> 0, pre_file |-> NoFile, pre_refresh |-> 0,
           attempts |-> <<>>, results |-> <<>>, qr_skipped |-> FALSE, qr_ok |-> FALSE,
           fell_back |-> FALSE, reads |-> 0, write_ok |-> FALSE, wrote |-> FALSE,
           cookie_dict |-> None]

\* A fallback block that never reads the file.
NoLocalFallback(cookie_dict, fallback_to_local, file) == cookie_dict

\* The test of the early return: a timestamp is set and less than an hour old.
RefreshedRecently(t, last) == (t - last) < MinRefreshHours /\ last # 0

\* The fallback block: with no bundle and fallback_to_local set, read the file.
LocalFallback(cookie_dict, fallback_to_local, file) ==
    IF cookie_dict = None /\ fallback_to_local THEN read_local_cookies(file) ELSE cookie_dict

\* The whole of renew_cookies called at time t on the state (last, file): the new
\* _last_qr_login_time, the new file and the record of the call. write_ok is
\* whether the file can be written (else open/json.dump raises and it is re-raised).
renew_cookies(methods, fallback_to_local, up, write_ok, t, last, file) ==
    LET st0 == [at |-> t, file |-> file, last_qr |-> last, cookie_dict |-> None,
                last_error |-> FALSE, attempts |-> <<>>, results |-> <<>>,
                qr_skipped |-> FALSE, qr_ok |-> FALSE, reads |-> 0]
        base == [NoCall EXCEPT !.fallback = fallback_to_local, !.at = t,
                                !.pre_last_qr = last, !.pre_file = file,
                                !.write_ok = write_ok]
    IN  IF RefreshedRecently(t, last)
        THEN [last_qr |-> last, file |-> file,
              call |-> [base EXCEPT !.outcome = "skipped"]]
        ELSE LET st == StrategyLoop(valid_methods(methods), up, 1, st0)
                 fell == st.cookie_dict = None /\ fallback_to_local
                 dict == LocalFallback(st.cookie_dict, fallback_to_local, file)
                 call == [base EXCEPT !.attempts = st.attempts, !.results = st.results,
                                      !.qr_skipped = st.qr_skipped, !.qr_ok = st.qr_ok,
                                      !.fell_back = fell,
                                      !.reads = st.reads + (IF fell THEN 1 ELSE 0),
                                      !.cookie_dict = dict]
             IN  IF dict = None
                 THEN [last_qr |-> st.last_qr, file |-> file,
                       call |-> [call EXCEPT !.outcome = "raised"]]
                 ELSE IF write_ok
                 THEN \* the file is written, then update_last_qr_login_time()
                      [last_qr |-> t, file |-> dict,
                       call |-> [call EXCEPT !.outcome = "ok", !.wrote = TRUE]]
                 ELSE [last_qr |-> st.last_qr, file |-> file,
                       call |-> [call EXCEPT !.outcome = "raised"]]


\* create_qzone_api: the cookies it loads from the file, None when there is no file.
create_qzone_api(file) == IF file = NoFile THEN None ELSE file

\* A call of renew_cookies returned r: the module global, the file and the
\* histories after it.
Renewed(r) ==
    /\ last_qr_login_time' = r.last_qr
    /\ cookie_file' = r.file
    /\ renew_call' = [r.call EXCEPT !.pre_refresh = refresh_time]
    /\ qr_success_time' = IF r.call.qr_ok THEN now ELSE qr_success_time
    /\ refresh_time' = IF r.call.wrote THEN now ELSE refresh_time
    /\ UNCHANGED <<cookie_methods, now, renewing>>

\* A caller (a command, an action, a scheduler pass) calls renew_cookies with the
\* configured methods.
RenewCookies ==
    /\ \E fallback_to_local \in BOOLEAN, write_ok \in BOOLEAN :
       \E up \in SUBSET (RemoteMethods \cap Range(valid_methods(cookie_methods))) :
        Renewed(renew_cookies(cookie_methods, fallback_to_local, up, write_ok,
                              now, last_qr_login_time, cookie_file))
    /\ UNCHANGED <<gtkVars, senderVars, silentVars, monitorVars, lifecycleVars, read_call,
                   api_call>>

\* Time passes: the clock moves to a later instant.
Tick ==
    /\ \E t \in ClockPoints : t > now /\ now' = t
    /\ UNCHANGED <<cookie_methods, last_qr_login_time, cookie_file, renew_call,
                   qr_success_time, refresh_time, renewing>>
    /\ UNCHANGED <<gtkVars, senderVars, silentVars, monitorVars, lifecycleVars, read_call,
                   api_call>>

\* The tasks that call renew_cookies on the one event loop: check_feeds of the
\* monitor and send_scheduled_feed of the sender.
Callers == {"monitor", "sender"}

NotRenewing == [c \in Callers |-> [pc |-> "idle", i |-> 0]]

\* The strategy loop run from position i until it suspends or ends, on the module
\* global and the file as they are now: "await" in the remote strategy at position
\* i, or "end" with the bundle of the local strategy or of the fallback block
\* (fallback_to_local keeps its default), None when there is none.
RECURSIVE RunToAwait(_, _, _, _, _)
RunToAwait(valid, i, last, file, t) ==
    IF i > Len(valid)
    THEN [pc |-> "end", i |-> i, dict |-> LocalFallback(None, TRUE, file)]
    ELSE IF valid[i] = "qrcode" /\ should_skip_qr_login(last, t)
    THEN RunToAwait(valid, i + 1, last, file, t)
    ELSE IF valid[i] = "local"
    THEN IF read_local_cookies(file) # None
         THEN [pc |-> "end", i |-> i, dict |-> read_local_cookies(file)]
         ELSE RunToAwait(valid, i + 1, last, file, t)
    ELSE [pc |-> "await", i |-> i, dict |-> None]

\* The end of a call that holds cookie_dict: the RuntimeError when it is None,
\* else the save and update_last_qr_login_time(), or the re-raised error of a
\* failed save. qr is whether login_via_qrcode returned during this step.
Persist(c, cookie_dict, qr) ==
    /\ renewing' = [renewing EXCEPT ![c] = [pc |-> "idle", i |-> 0]]
    /\ qr_success_time' = IF qr THEN now ELSE qr_success_time
    /\ \E write_ok \in BOOLEAN :
        LET saved == cookie_dict # None /\ write_ok IN
        /\ cookie_file' = IF saved THEN cookie_dict ELSE cookie_file
        /\ last_qr_login_time' = IF saved \/ qr THEN now ELSE last_qr_login_time
        /\ refresh_time' = IF saved THEN now ELSE refresh_time

\* The loop of caller c goes on from position i.
RunFrom(c, i) ==
    LET r == RunToAwait(valid_methods(cookie_methods), i, last_qr_login_time, cookie_file, now)
    IN  IF r.pc = "await"
        THEN /\ renewing' = [renewing EXCEPT ![c] = [pc |-> "await", i |-> r.i]]
             /\ UNCHANGED <<last_qr_login_time, cookie_file, qr_success_time, refresh_time>>
        ELSE Persist(c, r.dict, FALSE)

\* Caller c calls renew_cookies: the early return, or the loop up to its first
\* await.
RenewEnter(c) ==
    /\ renewing[c].pc = "idle"
    /\ IF RefreshedRecently(now, last_qr_login_time)
       THEN UNCHANGED <<last_qr_login_time, cookie_file, qr_success_time, refresh_time,
                        renewing>>
       ELSE RunFrom(c, 1)
    /\ UNCHANGED <<cookie_methods, now, renew_call>>
    /\ UNCHANGED <<gtkVars, senderVars, silentVars, monitorVars, lifecycleVars, read_call,
                   api_call>>

\* The remote strategy caller c awaits returns a bundle or raises; the call goes on
\* to its end or to its next await.
RenewResume(c) ==
    /\ renewing[c].pc = "await"
    /\ LET method == valid_methods(cookie_methods)[renewing[c].i] IN
       \E ok \in BOOLEAN :
            IF ok THEN Persist(c, BundleOf(method), method = "qrcode")
            ELSE RunFrom(c, renewing[c].i + 1)
    /\ UNCHANGED <<cookie_methods, now, renew_call>>
    /\ UNCHANGED <<gtkVars, senderVars, silentVars, monitorVars, lifecycleVars, read_call,
                   api_call>>

CookieInit ==
    /\ cookie_methods \in MethodLists
    /\ now = 1
    /\ last_qr_login_time = 0
    /\ cookie_file \in {NoFile, "ck_disk"}
    /\ renew_call = NoCall
    /\ qr_success_time = 0
    /\ refresh_time = 0
    /\ renewing = NotRenewing

CookieIdle ==
    /\ cookie_methods = DefaultMethods
    /\ now = 1
    /\ last_qr_login_time = 0
    /\ cookie_file = NoFile
    /\ renew_call = NoCall
    /\ qr_success_time = 0
    /\ refresh_time = 0
    /\ renewing = NotRenewing

NextCookie == RenewCookies \/ Tick

(***************************************************************************)
(* qzone_api.py: generate_gtk                                              *)
(***************************************************************************)

\* Longest skey, and the code points its characters are drawn from ("0", "a", "~").
MaxKeyLen == 5
KeyCodes == {48, 97, 126}
Keys == UNION {[1..n -> KeyCodes] : n \in 0..MaxKeyLen}

HashSeed == 5381
Mask31 == 2147483647

\* (a + b) mod 2^31 for a, b in 0..Mask31.
AddMod(a, b) == IF a > Mask31 - b THEN a - (Mask31 - b) - 1 ELSE a + b

\* A shift by four bits.
Shl4Mod(h) == (h % 134217728) * 16

\* (h << 5) mod 2^31.
Shl5Mod(h) == (h % 67108864) * 32

\* hash_val += (hash_val << 5) + ord(skey[i]) from position i on. Python's integers
\* are unbounded and the code masks once, at the end; the mask is a reduction modulo
\* 2^31, which commutes with + and <<, so every step is reduced here.
RECURSIVE HashFrom(_, _, _)
HashFrom(key, i, hash_val) ==
    IF i > Len(key) THEN hash_val
    ELSE HashFrom(key, i + 1, AddMod(AddMod(hash_val, Shl5Mod(hash_val)), key[i]))

Digit(d) ==
    CASE d = 0 -> "0" [] d = 1 -> "1" [] d = 2 -> "2" [] d = 3 -> "3" [] d = 4 -> "4"
      [] d = 5 -> "5" [] d = 6 -> "6" [] d = 7 -> "7" [] d = 8 -> "8" [] d = 9 -> "9"

\* str(n) for n >= 0: the decimal digits, no leading zero.
RECURSIVE IntToStr(_)
IntToStr(n) == IF n < 10 THEN <<Digit(n)>> ELSE Append(IntToStr(n \div 10), Digit(n % 10))

\* A hash that starts from 0.
generate_gtk_seed0(key) == IntToStr(HashFrom(key, 1, 0))

generate_gtk(key) == IntToStr(HashFrom(key, 1, HashSeed))

GenerateGtk ==
    /\ gtk' = generate_gtk(skey)
    /\ UNCHANGED <<skey, cookieVars, silentVars, monitorVars, senderVars, lifecycleVars,
                   read_call, api_call>>

GtkIdle == skey = <<>> /\ gtk = <<>>

(***************************************************************************)
(* scheduled_tasks.py: _is_in_silent_period, _parse_time_to_minutes        *)
(***************************************************************************)

\* Most periods in a configuration.
MaxPeriods == 2

\* The periods configurations are written from: a range start-end given as hours
\* and minutes (pad: with blanks around the times), or a raw text.
Range2(sh, sm, eh, em) == [kind |-> "range", sh |-> sh, sm |-> sm, eh |-> eh, em |-> em,
                           pad |-> FALSE]
PeriodChoices ==
    { Range2(23, 0, 7, 0), Range2(12, 0, 14, 0), Range2(6, 30, 6, 30),
      [Range2(22, 30, 6, 15) EXCEPT !.pad = TRUE],
      Range2(24, 0, 7, 0),
      [kind |-> "raw", text |-> <<"2", "3", "0", "0", "-", "0", "7", "0", "0">>],
      [kind |-> "raw", text |-> <<"2", "3", ":", "0", "0">>] }

\* The minutes of day the calls run at: the hours from 0 to 23 at minutes 0, 30
\* and 59.
SampleMinutes == {h * 60 + m : h \in 0..23, m \in {0, 30, 59}}

Two(n) == <<Digit(n \div 10), Digit(n % 10)>>
TimeText(h, m) == Two(h) \o <<":">> \o Two(m)
PeriodText(p) ==
    IF p.kind = "raw" THEN p.text
    ELSE IF p.pad THEN <<" ">> \o TimeText(p.sh, p.sm) \o <<" ", "-", " ">>
                       \o TimeText(p.eh, p.em) \o <<" ">>
    ELSE TimeText(p.sh, p.sm) \o <<"-">> \o TimeText(p.eh, p.em)

RECURSIVE ConfigText(_)
ConfigText(ps) ==
    IF ps = <<>> THEN <<>>
    ELSE IF Len(ps) = 1 THEN PeriodText(ps[1])
    ELSE PeriodText(ps[1]) \o <<",">> \o ConfigText(Tail(ps))

\* The first position of character c in s, 0 when it is not in s.
RECURSIVE FindFrom(_, _, _)
FindFrom(s, c, i) ==
    IF i > Len(s) THEN 0 ELSE IF s[i] = c THEN i ELSE FindFrom(s, c, i + 1)
Find(s, c) == FindFrom(s, c, 1)

\* str.strip(): blanks removed at both ends.
RECURSIVE LStrip(_)
LStrip(s) == IF s # <<>> /\ Head(s) = " " THEN LStrip(Tail(s)) ELSE s
RECURSIVE RStrip(_)
RStrip(s) == IF s # <<>> /\ s[Len(s)] = " " THEN RStrip(SubSeq(s, 1, Len(s) - 1)) ELSE s
Strip(s) == RStrip(LStrip(s))

\* str.split(c): the pieces between the occurrences of c.
RECURSIVE Split(_, _)
Split(s, c) ==
    LET k == Find(s, c)
    IN  IF k = 0 THEN <<s>>
        ELSE <<SubSeq(s, 1, k - 1)>> \o Split(SubSeq(s, k + 1, Len(s)), c)

\* str.split(c, 1) when c is in s: the text before and after its first occurrence.
Split1(s, c) ==
    LET k == Find(s, c) IN <<SubSeq(s, 1, k - 1), SubSeq(s, k + 1, Len(s))>>

IsDigit(c) == c \in {"0", "1", "2", "3", "4", "5", "6", "7", "8", "9"}
DigitVal(c) == CHOOSE d \in 0..9 : Digit(d) = c

RECURSIVE DigitsVal(_, _)
DigitsVal(s, acc) == IF s = <<>> THEN acc ELSE DigitsVal(Tail(s), acc * 10 + DigitVal(Head(s)))

\* int(s): <<n>> for a text of digits with an optional sign, <<>> for the
\* ValueError on any other text.
ParseInt(text) ==
    LET s == Strip(text)
        signed == s # <<>> /\ Head(s) \in {"-", "+"}
        body == IF signed THEN Tail(s) ELSE s
    IN  IF body = <<>> \/ \E i \in 1..Len(body) : ~IsDigit(body[i]) THEN <<>>
        ELSE IF signed /\ Head(s) = "-" THEN <<0 - DigitsVal(body, 0)>>
        ELSE <<DigitsVal(body, 0)>>

\* <<minutes>>, or <<>> where the code returns None.
_parse_time_to_minutes(time_str) ==
    IF Find(time_str, ":") = 0 THEN <<>>
    ELSE LET parts == Split1(time_str, ":")
             hour == ParseInt(Strip(parts[1]))
             minute == ParseInt(Strip(parts[2]))
         IN  IF hour = <<>> \/ minute = <<>> THEN <<>>
             ELSE IF 0 <= hour[1] /\ hour[1] <= 23 /\ 0 <= minute[1] /\ minute[1] <= 59
                  THEN <<hour[1] * 60 + minute[1]>>
                  ELSE <<>>

\* A range that never wraps over midnight.
PeriodCoversNoWrap(start_time, end_time, current_time) ==
    start_time <= current_time /\ current_time <= end_time

\* The test of one parsed period.
PeriodCovers(start_time, end_time, current_time) ==
    IF start_time <= end_time
    THEN start_time <= current_time /\ current_time <= end_time
    ELSE current_time >= start_time \/ current_time <= end_time

\* Whether one piece of the configuration is a period that covers current_time.
PeriodSilent(piece, current_time) ==
    LET period == Strip(piece)
    IN  IF period = <<>> \/ Find(period, "-") = 0 THEN FALSE
        ELSE LET parts == Split1(period, "-")
                 start_time == _parse_time_to_minutes(Strip(parts[1]))
                 end_time == _parse_time_to_minutes(Strip(parts[2]))
             IN  IF start_time = <<>> \/ end_time = <<>> THEN FALSE
                 ELSE PeriodCovers(start_time[1], end_time[1], current_time)

\* A policy that looks at the first period of the configuration only.
_is_in_silent_period_first(silent_hours_config, like, comment, current_time) ==
    IF silent_hours_config = <<>> \/ Strip(silent_hours_config) = <<>>
    THEN <<FALSE, TRUE, TRUE>>
    ELSE IF PeriodSilent(Split(silent_hours_config, ",")[1], current_time)
         THEN <<TRUE, like, comment>> ELSE <<FALSE, TRUE, TRUE>>

\* (is_silent, allow_like, allow_comment) at minute current_time of the day.
_is_in_silent_period(silent_hours_config, like, comment, current_time) ==
    IF silent_hours_config = <<>> \/ Strip(silent_hours_config) = <<>>
    THEN <<FALSE, TRUE, TRUE>>
    ELSE LET periods == Split(silent_hours_config, ",")
             is_silent == \E i \in 1..Len(periods) : PeriodSilent(periods[i], current_time)
         IN  IF is_silent THEN <<TRUE, like, comment>> ELSE <<FALSE, TRUE, TRUE>>

\* A caller evaluates the policy at the current minute of the day.
CheckSilent ==
    /\ silent_result' = _is_in_silent_period(silent_hours, like_during_silent,
                                             comment_during_silent, minute_of_day)
    /\ UNCHANGED <<silent_periods, silent_hours, like_during_silent, comment_during_silent,
                   minute_of_day>>
    /\ UNCHANGED <<cookieVars, gtkVars, senderVars, monitorVars, lifecycleVars, read_call,
                   api_call>>

SilentIdle ==
    /\ silent_periods = <<>>
    /\ silent_hours = <<>>
    /\ like_during_silent = TRUE
    /\ comment_during_silent = FALSE
    /\ minute_of_day = 0
    /\ silent_result = <<>>

(***************************************************************************)
(* qzone_api.py: publish_emotion, reply, extract_code; utils.py: send_feed *)
(***************************************************************************)

\* The answers to the publish call: the transport status, whether the body is
\* JSON and whether it carries a tid.
PublishResponses ==
    {res \in [status_code : {200, 500}, json : BOOLEAN, has_tid : BOOLEAN, tid : {"99"}] :
       res.has_tid => res.json}

\* A publish that trusts the transport status alone.
publish_emotion_status_only(res) ==
    [raised |-> res.status_code # 200, tid |-> res.tid]

\* publish_emotion(content, []): res.json()['tid'] on status 200, an exception
\* on any other status, on a body that is not JSON and on a body without tid.
publish_emotion(res) ==
    IF res.status_code = 200 /\ res.json /\ res.has_tid
    THEN [raised |-> FALSE, tid |-> res.tid]
    ELSE [raised |-> TRUE, tid |-> ""]

\* send_feed without images: True when publish_emotion returned, False when it
\* raised.
send_feed(res) == ~publish_emotion(res).raised

\* A call of send_feed without images.
SendFeed ==
    /\ \E res \in PublishResponses :
         api_call' = [op |-> "publish", res |-> res, out |-> publish_emotion(res),
                      sent |-> send_feed(res)]
    /\ UNCHANGED <<cookieVars, gtkVars, silentVars, monitorVars, senderVars, lifecycleVars,
                   read_call>>

\* The most images of one call of publish_emotion.
MaxImages == 2

\* The answers to the upload call of an image: the transport status, the ret of
\* the payload (the integer 0, another integer, or no ret at all) and what follows
\* '&bo=' in data.url ("" for a url without it).
UploadResponses == [status_code : {200, 500}, ret : {"0", "1", "absent"}, bo : {"", "a", "b"}]

\* ','.join(pic_bos)
Join(pieces) ==
    [k \in 1..(IF pieces = <<>> THEN 0 ELSE 2 * Len(pieces) - 1) |->
       IF k % 2 = 1 THEN pieces[(k + 1) \div 2] ELSE ","]

\* A loop that leaves out the image whose upload failed.
RECURSIVE UploadLoopSkipFailed(_, _, _, _)
UploadLoopSkipFailed(uploads, i, pic_bos, calls) ==
    IF i > Len(uploads)
    THEN [raised |-> FALSE, pic_bos |-> pic_bos, calls |-> calls]
    ELSE UploadLoopSkipFailed(uploads, i + 1,
             IF uploads[i].status_code = 200 /\ uploads[i].ret = "0" /\ uploads[i].bo # ""
             THEN Append(pic_bos, uploads[i].bo) ELSE pic_bos,
             Append(calls, <<"upload", i>>))

\* The loop over the images from the i-th on: upload_image raises on a status
\* other than 200, get_picbo_and_richval on a payload without ret, with a ret
\* other than 0 and with a url without '&bo='; else the picbo is appended. calls
\* is the list of the calls sent to the remote.
RECURSIVE UploadLoop(_, _, _, _)
UploadLoop(uploads, i, pic_bos, calls) ==
    IF i > Len(uploads)
    THEN [raised |-> FALSE, pic_bos |-> pic_bos, calls |-> calls]
    ELSE IF uploads[i].status_code # 200 \/ uploads[i].ret # "0" \/ uploads[i].bo = ""
    THEN [raised |-> TRUE, pic_bos |-> pic_bos, calls |-> Append(calls, <<"upload", i>>)]
    ELSE UploadLoop(uploads, i + 1, Append(pic_bos, uploads[i].bo),
                    Append(calls, <<"upload", i>>))

\* publish_emotion(content, images): the uploads, then the publish call with
\* pic_bo in its data.
publish_emotion_images(uploads, res) ==
    LET up == UploadLoop(uploads, 1, <<>>, <<>>)
    IN  IF up.raised
        THEN [raised |-> TRUE, tid |-> "", calls |-> up.calls, pic_bo |-> <<>>]
        ELSE [raised |-> publish_emotion(res).raised, tid |-> publish_emotion(res).tid,
              calls |-> Append(up.calls, <<"publish">>), pic_bo |-> Join(up.pic_bos)]

\* A call of publish_emotion with images, once.
PublishImages ==
    /\ api_call.op # "publish_uploads"
    /\ \E n \in 1..MaxImages :
         \E uploads \in [1..n -> UploadResponses], res \in PublishResponses :
           api_call' = [op |-> "publish_uploads", uploads |-> uploads, res |-> res,
                        out |-> publish_emotion_images(uploads, res)]
    /\ UNCHANGED <<cookieVars, gtkVars, silentVars, monitorVars, senderVars, lifecycleVars,
                   read_call>>

\* @retry(max_retries=3, delay=2, check_result=True) on generate_image.
max_retries == 3

\* What the attempts of generate_image give, one after the other: it returns
\* "True" or "False", or it raises.
Attempts == [1..max_retries -> {"True", "False", "raise"}]

\* The wrapper of retry with check_result: the first result that is not False is
\* returned; when every attempt returned False or raised, the wrapper raises (the
\* last exception, or a RuntimeError when none was raised).
retry(attempts) ==
    IF \E i \in 1..max_retries : attempts[i] = "True" THEN "True" ELSE "raised"

\* The largest max_retries a function is decorated with.
MaxAttempts == 3

\* What a call of the decorated function gives: it returns True, False or None,
\* or it raises one of two exceptions.
CallOutcomes == {"True", "False", "None", "raise a", "raise b"}

\* A loop that retries on False whatever check_result is.
RECURSIVE RetryLoopAlwaysChecks(_, _, _, _, _)
RetryLoopAlwaysChecks(max, check_result, outcomes, attempt, last_exception) ==
    IF attempt >= max
    THEN [calls |-> attempt, result |-> "raised",
          exception |-> IF last_exception # "None" THEN last_exception ELSE "RuntimeError"]
    ELSE IF outcomes[attempt + 1] \in {"raise a", "raise b"}
    THEN RetryLoopAlwaysChecks(max, check_result, outcomes, attempt + 1,
                               outcomes[attempt + 1])
    ELSE IF outcomes[attempt + 1] = "False"
    THEN RetryLoopAlwaysChecks(max, check_result, outcomes, attempt + 1, last_exception)
    ELSE [calls |-> attempt + 1, result |-> outcomes[attempt + 1], exception |-> "None"]

\* wrapper, from `for attempt in range(max_retries)` on: an exception is kept in
\* last_exception, a False under check_result goes to the next attempt, any other
\* result is returned; after the loop the last exception is raised, or a
\* RuntimeError when there is none. calls counts the calls of func.
RECURSIVE RetryLoop(_, _, _, _, _)
RetryLoop(max, check_result, outcomes, attempt, last_exception) ==
    IF attempt >= max
    THEN [calls |-> attempt, result |-> "raised",
          exception |-> IF last_exception # "None" THEN last_exception ELSE "RuntimeError"]
    ELSE IF outcomes[attempt + 1] \in {"raise a", "raise b"}
    THEN RetryLoop(max, check_result, outcomes, attempt + 1, outcomes[attempt + 1])
    ELSE IF check_result /\ outcomes[attempt + 1] = "False"
    THEN RetryLoop(max, check_result, outcomes, attempt + 1, last_exception)
    ELSE [calls |-> attempt + 1, result |-> outcomes[attempt + 1], exception |-> "None"]

\* A call of a function decorated with retry(max_retries, delay, check_result),
\* once.
RetryCall ==
    /\ api_call.op = "none"
    /\ \E max \in 0..MaxAttempts, check_result \in BOOLEAN :
         \E outcomes \in [1..max -> CallOutcomes] :
           api_call' = [op |-> "retry", max |-> max, check_result |-> check_result,
                        outcomes |-> outcomes,
                        out |-> RetryLoop(max, check_result, outcomes, 0, "None")]
    /\ UNCHANGED <<cookieVars, gtkVars, silentVars, monitorVars, senderVars, lifecycleVars,
                   read_call>>

\* The values of send.image_mode: the three the code knows and one it does not.
ImageModes == {"only_ai", "only_emoji", "random", "bogus"}

\* send_feed with enable_image: the source of the images (an unknown mode is
\* taken for random, where draw is random.random() < ai_probability), then for
\* the AI images the API key and generate_image under retry, for the others the
\* emoji found or not, and publish_emotion with the images. The result is what
\* send_feed returned, "True" or "False", or "raised"; published is whether
\* publish_emotion was called, images how many images it was given.
send_feed_images(image_mode, draw, api_key, attempts, emoji, res) ==
    LET use_ai == image_mode = "only_ai" \/ (image_mode # "only_emoji" /\ draw)
        posted == [use_ai |-> use_ai, published |-> TRUE,
                   images |-> IF use_ai \/ emoji THEN 1 ELSE 0,
                   result |-> IF publish_emotion(res).raised THEN "False" ELSE "True"]
    IN  IF use_ai /\ ~api_key
        THEN [use_ai |-> TRUE, published |-> FALSE, images |-> 0, result |-> "False"]
        ELSE IF use_ai /\ retry(attempts) = "raised"
        THEN [use_ai |-> TRUE, published |-> FALSE, images |-> 0, result |-> "raised"]
        ELSE IF use_ai /\ retry(attempts) # "True"
        THEN [use_ai |-> TRUE, published |-> FALSE, images |-> 0, result |-> "False"]
        ELSE posted

\* A call of send_feed with enable_image, once.
SendFeedImages ==
    /\ api_call.op # "publish_images"
    /\ \E image_mode \in ImageModes, draw \in BOOLEAN, api_key \in BOOLEAN,
          attempts \in Attempts, emoji \in BOOLEAN, res \in PublishResponses :
         api_call' = [op |-> "publish_images", image_mode |-> image_mode,
                      api_key |-> api_key, attempts |-> attempts, res |-> res,
                      out |-> send_feed_images(image_mode, draw, api_key, attempts,
                                               emoji, res)]
    /\ UNCHANGED <<cookieVars, gtkVars, silentVars, monitorVars, senderVars, lifecycleVars,
                   read_call>>

\* The answers to the reply call: the transport status, whether the text holds a
\* script with the callback, whether its argument parses, and the code of the
\* argument: the integer 0, another integer, the string '0', or no code at all.
ReplyResponses ==
    {res \in [status_code : {200, 500}, script : BOOLEAN, parses : BOOLEAN,
              code : {"0", "-3000", "'0'", "None"}] :
       res.code # "None" => res.status_code = 200 /\ res.script /\ res.parses}

\* extract_code: None without the script or when anything raises, else
\* data.get("code").
extract_code(res) == IF res.script /\ res.parses THEN res.code ELSE "None"

\* A reply that trusts the transport status alone.
reply_status_only(res) ==
    [raised |-> res.status_code # 200, ok |-> res.status_code = 200]

\* reply: on status 200 True iff extract_code gives the integer 0; an exception
\* on any other status.
reply(res) ==
    IF res.status_code = 200
    THEN [raised |-> FALSE, ok |-> extract_code(res) = "0"]
    ELSE [raised |-> TRUE, ok |-> FALSE]

(***************************************************************************)
(* scheduled_tasks.py: FeedMonitor                                         *)
(***************************************************************************)

\* The friend feeds of the remote, and the configured sizes
\* monitor.processed_feeds_cache_size and monitor.processed_comments_cache_size.
NumFriendFeeds == 2
processed_feeds_cache_size == 1
processed_comments_cache_size == 1

\* Feed ids: the friends' feeds, then one feed of the bot's own account.
FriendTids == 1..NumFriendFeeds
OwnTids == {NumFriendFeeds + 1}
Tids == FriendTids \cup OwnTids

\* The friend feed whose writes the histories comment_writes and like_writes
\* count; the feeds differ by their ids alone.
watched_fid == CHOOSE f \in FriendTids : \A g \in FriendTids : f <= g

qq_account == "bot"
target_qq(fid) == IF fid \in OwnTids THEN qq_account ELSE "friend"

\* The comments under each own feed: two by a friend and one by the bot itself.
comments_list(fid) ==
    IF fid \in OwnTids
    THEN <<[comment_tid |-> "c1", qq_account |-> "friend"],
           [comment_tid |-> "c2", qq_account |-> "friend"],
           [comment_tid |-> "c3", qq_account |-> qq_account]>>
    ELSE <<>>

\* The lists monitor_read_feed may return: none, one or two distinct feeds, in
\* any order.
FeedLists == {<<>>} \cup {<<a>> : a \in Tids}
                    \cup {l \in {<<a, b>> : a \in Tids, b \in Tids} : l[1] # l[2]}

\* The minutes of day the passes run at: noon and 23:30.
PassMinutes == {12 * 60, 23 * 60 + 30}

\* A dict is the sequence of its keys in insertion order (processed_list, whose
\* values are all []), or of its items [fid, tids] (processed_comments).
Keys_(d) == {d[i].fid : i \in 1..Len(d)}

\* An eviction that drops the newest entries.
RECURSIVE EvictNewest(_, _)
EvictNewest(d, size) ==
    IF Len(d) > size THEN EvictNewest(SubSeq(d, 1, Len(d) - 1), size) ELSE d

\* while len(d) > size: d.pop(next(iter(d)))
RECURSIVE Evict(_, _)
Evict(d, size) == IF Len(d) > size THEN Evict(Tail(d), size) ELSE d

\* processed_list[fid] = []: a new key goes last, an existing key keeps its place.
DictSet(d, fid) == IF fid \in Range(d) THEN d ELSE Append(d, fid)

\* processed_comments.get(fid, [])
DictGet(d, fid) ==
    IF fid \in Keys_(d) THEN (CHOOSE e \in Range(d) : e.fid = fid).tids ELSE <<>>

\* processed_comments.setdefault(fid, []).append(comment_tid)
SetDefaultAppend(d, fid, comment_tid) ==
    IF fid \in Keys_(d)
    THEN [i \in 1..Len(d) |-> IF d[i].fid = fid
                              THEN [d[i] EXCEPT !.tids = Append(@, comment_tid)]
                              ELSE d[i]]
    ELSE Append(d, [fid |-> fid, tids |-> <<comment_tid>>])

\* processed_list[fid] = [], then the loop that trims the dict.
MarkedFeeds(d, fid) == Evict(DictSet(d, fid), processed_feeds_cache_size)

\* processed_comments.setdefault(fid, []).append(comment_tid), then the loop that
\* trims the dict.
MarkedComments(d, fid, comment_tid) ==
    Evict(SetDefaultAppend(d, fid, comment_tid), processed_comments_cache_size)

\* A list that holds every comment of the feed.
ToReplyAll(fid, comments) == comments_list(fid)

\* The comments of an own feed still to reply to: not the bot's own, not processed.
ToReply(fid, comments) ==
    SelectSeq(comments_list(fid),
              LAMBDA c : c.qq_account # qq_account
                         /\ c.comment_tid \notin Range(DictGet(comments, fid)))

\* History: the last size + 1 keys inserted, oldest first.
Logged(log, fid, size) ==
    LET l == Append(log, fid) IN IF Len(l) > size + 1 THEN Tail(l) ELSE l

\* History: the writes done on watched_fid, counted up to 2, after a round on
\* fid; the count starts again from 0 when watched_fid is evicted.
Counted(writes, fid, written, evicted) ==
    IF watched_fid \in evicted THEN 0
    ELSE IF fid = watched_fid /\ written /\ writes < 2 THEN writes + 1
    ELSE writes

allow_like == silent_result[2]

\* A permission to comment that no period takes away.
allow_comment_always == TRUE

allow_comment == silent_result[3]

\* A loop that saves processed_list alone.
SavedListOnly(feeds, comments, next) ==
    /\ file_processed_list' = feeds
    /\ UNCHANGED file_processed_comments
    /\ task' = next
    /\ feeds_list' = <<>>
    /\ list_to_reply' = <<>>

\* check_feeds has returned, or raised: _monitor_loop saves both dicts, then
\* sleeps for the interval (next = "sleep") or for 300 seconds (next = "backoff").
Saved(feeds, comments, next) ==
    /\ file_processed_list' = feeds
    /\ file_processed_comments' = comments
    /\ task' = next
    /\ feeds_list' = <<>>
    /\ list_to_reply' = <<>>

\* The feed at the head of feeds_list is finished: the loop goes on with the
\* rest, and check_feeds returns when there is none. file is the content of
\* processed_list.json as the round left it.
Continued(file, feeds, comments) ==
    IF Tail(feeds_list) = <<>>
    THEN Saved(feeds, comments, "sleep")
    ELSE /\ task' = "feeds"
         /\ feeds_list' = Tail(feeds_list)
         /\ list_to_reply' = <<>>
         /\ file_processed_list' = file
         /\ UNCHANGED file_processed_comments

\* A test that never finds the scheduler running.
AlreadyRunningNever(running) == FALSE

\* The test of start(): a no-op when the scheduler runs.
AlreadyRunning(running) == running

\* An await that ends at once.
UnwoundAlways(t) == TRUE

\* The end of `await self.task` in stop(): the loop task is done.
Unwound(t) == t = "none"

\* start(), called when no stop() is awaiting: a no-op when the monitor runs, else
\* the loop task is created; it loads both dicts and sleeps.
Start ==
    /\ monitor_call # "stopping"
    /\ monitor_call' = "start"
    /\ IF AlreadyRunning(is_running)
       THEN UNCHANGED <<is_running, task, processed_list, processed_comments,
                        cancelled_at, alive>>
       ELSE /\ is_running' = TRUE
            /\ task' = "sleep"
            /\ processed_list' = file_processed_list
            /\ processed_comments' = file_processed_comments
            /\ cancelled_at' = IF cancelled_at = "none" THEN "none" ELSE "restarted"
            /\ alive' = alive + 1
    /\ UNCHANGED <<file_processed_list, file_processed_comments, feeds_list, list_to_reply,
                   comment_writes, like_writes, inserted_feeds, inserted_threads,
                   pinned_feeds, sender_call, sender_alive>>
    /\ UNCHANGED <<cookieVars, gtkVars, senderVars, silentVars, passes, read_call,
                   api_call>>

\* stop() up to its await: a no-op when the monitor does not run, else the flag
\* is cleared and the task is cancelled where it waits.
Stop ==
    /\ monitor_call # "stopping"
    /\ IF ~is_running
       THEN /\ monitor_call' = "stop"
            /\ UNCHANGED <<is_running, task, cancelled_at>>
       ELSE /\ monitor_call' = "stopping"
            /\ is_running' = FALSE
            /\ cancelled_at' = task
            /\ task' = "cancelled"
    /\ UNCHANGED <<processed_list, processed_comments, file_processed_list,
                   file_processed_comments, feeds_list, list_to_reply,
                   comment_writes, like_writes, inserted_feeds, inserted_threads,
                   pinned_feeds, alive, sender_call, sender_alive>>
    /\ UNCHANGED <<cookieVars, gtkVars, senderVars, silentVars, passes, read_call,
                   api_call>>

\* The CancelledError in the loop task: raised in the try block (the sleep of the
\* interval or check_feeds) its handler saves both dicts and leaves the loop;
\* raised in the sleep of the backoff it ends the task at once.
Cancelled ==
    /\ task = "cancelled"
    /\ IF cancelled_at = "backoff"
       THEN /\ task' = "none"
            /\ feeds_list' = <<>>
            /\ list_to_reply' = <<>>
            /\ UNCHANGED <<file_processed_list, file_processed_comments>>
       ELSE Saved(processed_list, processed_comments, "none")
    /\ processed_list' = <<>>
    /\ processed_comments' = <<>>
    /\ alive' = alive - 1
    /\ UNCHANGED <<is_running, comment_writes, like_writes, inserted_feeds,
                   inserted_threads, pinned_feeds, monitor_call, cancelled_at, sender_call,
                   sender_alive>>
    /\ UNCHANGED <<cookieVars, gtkVars, senderVars, silentVars, passes, read_call,
                   api_call>>

\* stop() returns: the awaited task is done.
Stopped ==
    /\ monitor_call = "stopping"
    /\ Unwound(task)
    /\ monitor_call' = "stop"
    /\ UNCHANGED <<cancelled_at, alive, sender_call, sender_alive>>
    /\ UNCHANGED <<cookieVars, gtkVars, senderVars, silentVars, monitorVars, passes,
                   read_call, api_call>>

\* An exception that ends the loop task.
EscapedEndsLoop == "none"

\* Where the loop is once an exception has escaped check_feeds: its handler has
\* saved both dicts and sleeps 300 seconds.
Escaped == "backoff"

\* The sleep of the interval is over and check_feeds starts: the silent-period
\* policy, the model configuration (model: "ok", "unset" for a falsy entry,
\* "missing" for the KeyError) and renew_cookies (the napcat strategy answers or
\* not; the credentials file is writable).
CheckFeeds ==
    /\ task = "sleep"
    /\ \E t \in PassMinutes, model \in {"ok", "unset", "missing"},
          up \in SUBSET {"napcat"} :
        LET write_ok == TRUE
            silent == _is_in_silent_period(silent_hours, like_during_silent,
                                           comment_during_silent, t)
            r == renew_cookies(cookie_methods, TRUE, up, write_ok,
                               now, last_qr_login_time, cookie_file)
        IN  /\ minute_of_day' = t
            /\ silent_result' = silent
            /\ IF silent[1] /\ ~silent[2] /\ ~silent[3]
               THEN /\ Saved(processed_list, processed_comments, "sleep")
                    /\ UNCHANGED cookieVars
               ELSE IF model = "unset"
               THEN /\ Saved(processed_list, processed_comments, "sleep")
                    /\ UNCHANGED cookieVars
               ELSE IF model = "missing"
               THEN /\ Saved(processed_list, processed_comments, Escaped)
                    /\ UNCHANGED cookieVars
               ELSE /\ Renewed(r)
                    /\ IF r.call.outcome = "raised"
                       THEN Saved(processed_list, processed_comments, "sleep")
                       ELSE /\ task' = "read"
                            /\ UNCHANGED <<file_processed_list, file_processed_comments,
                                           feeds_list, list_to_reply>>
    /\ UNCHANGED <<is_running, processed_list, processed_comments,
                   comment_writes, like_writes, inserted_feeds, inserted_threads,
                   pinned_feeds>>
    /\ passes' = 1 - passes
    /\ UNCHANGED <<gtkVars, senderVars, silent_periods, silent_hours, like_during_silent,
                   comment_during_silent, monitor_call, cancelled_at, alive, sender_call,
                   sender_alive, read_call, api_call>>

\* monitor_read_feed has returned list: an empty list ends the pass.
ReadFeed(list) ==
    /\ task = "read"
    /\ IF list = <<>>
       THEN Saved(processed_list, processed_comments, "sleep")
       ELSE /\ task' = "feeds"
            /\ feeds_list' = list
            /\ UNCHANGED <<file_processed_list, file_processed_comments, list_to_reply>>
    /\ UNCHANGED <<is_running, processed_list, processed_comments,
                   comment_writes, like_writes, inserted_feeds, inserted_threads,
                   pinned_feeds>>
    /\ UNCHANGED <<cookieVars, gtkVars, senderVars, silentVars, lifecycleVars, read_call,
                   api_call>>

\* The remote answers with any list.
MonitorReadFeed == \E list \in FeedLists : ReadFeed(list)

\* The remote answers with the same list at every pass.
MonitorReadSameFeed == ReadFeed(pinned_feeds)

\* One round of the loop over feeds_list, for a feed of the bot's own account:
\* the comments to reply to are collected (enable_auto_reply is read at each feed).
OwnFeed ==
    /\ task = "feeds"
    /\ target_qq(Head(feeds_list)) = qq_account
    /\ \E enable_auto_reply \in BOOLEAN :
        LET todo == ToReply(Head(feeds_list), processed_comments)
        IN  IF ~enable_auto_reply \/ todo = <<>>
            THEN Continued(file_processed_list, processed_list, processed_comments)
            ELSE /\ task' = "reply"
                 /\ list_to_reply' = todo
                 /\ UNCHANGED <<feeds_list, file_processed_list, file_processed_comments>>
    /\ UNCHANGED <<is_running, processed_list, processed_comments,
                   comment_writes, like_writes, inserted_feeds, inserted_threads,
                   pinned_feeds>>
    /\ UNCHANGED <<cookieVars, gtkVars, senderVars, silentVars, lifecycleVars, read_call,
                   api_call>>

\* One round of the loop over list_to_reply: the model writes the reply,
\* renew_cookies, reply_feed, then the comment is marked and the dict trimmed.
ReplyComment ==
    /\ task = "reply"
    /\ \E llm_ok \in BOOLEAN, res \in ReplyResponses, up \in SUBSET {"napcat"} :
        LET write_ok == TRUE
            fid == Head(feeds_list)
            comment == Head(list_to_reply)
            r == renew_cookies(cookie_methods, TRUE, up, write_ok,
                               now, last_qr_login_time, cookie_file)
            marked == MarkedComments(processed_comments, fid, comment.comment_tid)
        IN  IF ~llm_ok
            THEN /\ Saved(processed_list, processed_comments, "sleep")
                 /\ UNCHANGED <<processed_comments, inserted_threads, cookieVars, api_call>>
            ELSE /\ Renewed(r)
                 /\ api_call' = IF r.call.outcome = "raised" THEN api_call
                                ELSE [op |-> "reply", res |-> res, out |-> reply(res),
                                      fid |-> fid, comment_tid |-> comment.comment_tid]
                 /\ IF r.call.outcome = "raised" \/ ~reply(res).ok
                    THEN /\ Saved(processed_list, processed_comments, "sleep")
                         /\ UNCHANGED <<processed_comments, inserted_threads>>
                    ELSE /\ processed_comments' = marked
                         /\ inserted_threads' =
                                IF fid \in Keys_(processed_comments) THEN inserted_threads
                                ELSE Logged(inserted_threads, fid,
                                            processed_comments_cache_size)
                         /\ IF Tail(list_to_reply) = <<>>
                            THEN Continued(file_processed_list, processed_list, marked)
                            ELSE /\ list_to_reply' = Tail(list_to_reply)
                                 /\ UNCHANGED <<task, feeds_list, file_processed_list,
                                                file_processed_comments>>
    /\ UNCHANGED <<is_running, processed_list, comment_writes, like_writes,
                   inserted_feeds, pinned_feeds>>
    /\ UNCHANGED <<gtkVars, senderVars, silentVars, lifecycleVars, read_call>>

\* A marking that does not wait for the like.
MarkedBeforeLike(commented, liked) == commented

\* A round that marks no feed.
MarkedNever(commented, liked) == FALSE

\* processed_list[fid] = [] is reached: nothing before it returned.
ReachedMark(commented, liked) == liked

\* The round for a friend's feed that is not in processed_list: the model writes
\* a comment, comment_feed and like_feed run behind their gates (the permission
\* of the period and the random draw), the feed is marked, the dict trimmed and
\* saved. A step that fails (it returns False, or it raises and the handler of
\* check_feeds returns) ends check_feeds. call is the record the round leaves in
\* api_call.
FriendRound(llm_ok, comment_draw, comment_ok, like_draw, like_ok, call) ==
    LET fid == Head(feeds_list)
        do_comment == llm_ok /\ allow_comment /\ comment_draw
        commented == llm_ok /\ (do_comment => comment_ok)
        do_like == commented /\ allow_like /\ like_draw
        liked == commented /\ (do_like => like_ok)
        marked == MarkedFeeds(processed_list, fid)
        evicted == IF ReachedMark(commented, liked)
                   THEN Range(processed_list) \ Range(marked) ELSE {}
    IN  /\ comment_writes' = Counted(comment_writes, fid, do_comment /\ comment_ok,
                                      evicted)
        /\ like_writes' = Counted(like_writes, fid, do_like /\ like_ok, evicted)
        /\ api_call' = call
        /\ IF ReachedMark(commented, liked)
           THEN /\ processed_list' = marked
                /\ inserted_feeds' = Logged(inserted_feeds, fid,
                                            processed_feeds_cache_size)
                /\ Continued(marked, marked, processed_comments)
           ELSE /\ Saved(processed_list, processed_comments, "sleep")
                /\ UNCHANGED <<processed_list, inserted_feeds>>

\* One round of the loop over feeds_list, for a friend's feed: skipped when it is
\* in processed_list, else FriendRound.
FriendFeed ==
    /\ task = "feeds"
    /\ target_qq(Head(feeds_list)) # qq_account
    /\ IF Head(feeds_list) \in Range(processed_list)
       THEN /\ Continued(file_processed_list, processed_list, processed_comments)
            /\ UNCHANGED <<processed_list, comment_writes, like_writes, inserted_feeds,
                           api_call>>
       ELSE \E llm_ok \in BOOLEAN, comment_draw \in BOOLEAN, comment_ok \in BOOLEAN,
               like_draw \in BOOLEAN, like_ok \in BOOLEAN :
              FriendRound(llm_ok, comment_draw, comment_ok, like_draw, like_ok, api_call)
    /\ UNCHANGED <<is_running, processed_comments, inserted_threads, pinned_feeds>>
    /\ UNCHANGED <<cookieVars, gtkVars, senderVars, silentVars, lifecycleVars, read_call>>

\* What a step of a round gives: generate_with_model its success, comment_feed
\* and like_feed True or False, or they raise.
StepOutcomes == {"True", "False", "raise"}

\* FriendFeed with the round on record: the feed, whether the model wrote a
\* comment, and for comment_feed and like_feed what the call gave, "skipped" when
\* its gate kept it out and "unreached" when check_feeds had returned before it.
FriendFeedOnRecord ==
    /\ task = "feeds"
    /\ target_qq(Head(feeds_list)) # qq_account
    /\ IF Head(feeds_list) \in Range(processed_list)
       THEN /\ Continued(file_processed_list, processed_list, processed_comments)
            /\ api_call' = [op |-> "skip", fid |-> Head(feeds_list)]
            /\ UNCHANGED <<processed_list, comment_writes, like_writes, inserted_feeds>>
       ELSE \E llm_ok \in BOOLEAN, comment_draw \in BOOLEAN, like_draw \in BOOLEAN,
               comment \in StepOutcomes, like \in StepOutcomes :
              LET comment_step == IF ~llm_ok THEN "unreached"
                                  ELSE IF ~(allow_comment /\ comment_draw) THEN "skipped"
                                  ELSE comment
                  like_step == IF ~llm_ok \/ comment_step \in {"False", "raise"}
                               THEN "unreached"
                               ELSE IF ~(allow_like /\ like_draw) THEN "skipped"
                               ELSE like
              IN  FriendRound(llm_ok, comment_draw, comment = "True", like_draw,
                              like = "True",
                              [op |-> "round", fid |-> Head(feeds_list), llm_ok |-> llm_ok,
                               comment |-> comment_step, like |-> like_step])
    /\ UNCHANGED <<is_running, processed_comments, inserted_threads, pinned_feeds>>
    /\ UNCHANGED <<cookieVars, gtkVars, senderVars, silentVars, lifecycleVars, read_call>>

\* The statements that mark a feed, on their own: processed_list[fid] = [], the
\* trimming loop and the save (check_feeds, and ReadFeedAction.execute on the dict
\* it loaded), for any id, in the dict or not.
MarkFeed ==
    /\ \E fid \in Tids :
        LET marked == MarkedFeeds(processed_list, fid)
            evicted == Range(processed_list) \ Range(marked)
        IN  /\ processed_list' = marked
            /\ file_processed_list' = marked
            /\ inserted_feeds' = IF fid \in Range(processed_list) THEN inserted_feeds
                                  ELSE Logged(inserted_feeds, fid, processed_feeds_cache_size)
            /\ comment_writes' = Counted(comment_writes, fid, FALSE, evicted)
            /\ like_writes' = Counted(like_writes, fid, FALSE, evicted)
    /\ UNCHANGED <<is_running, task, processed_comments, file_processed_comments,
                   feeds_list, list_to_reply, inserted_threads, pinned_feeds>>
    /\ UNCHANGED <<cookieVars, gtkVars, senderVars, silentVars, lifecycleVars, read_call,
                   api_call>>

\* The statements that mark a replied comment, on their own, for any feed id and
\* any comment of it not yet in the dict.
MarkComment ==
    /\ \E fid \in Tids, comment_tid \in {"c1", "c2"} :
        /\ comment_tid \notin Range(DictGet(processed_comments, fid))
        /\ processed_comments' = MarkedComments(processed_comments, fid, comment_tid)
        /\ inserted_threads' = IF fid \in Keys_(processed_comments) THEN inserted_threads
                                ELSE Logged(inserted_threads, fid,
                                            processed_comments_cache_size)
    /\ UNCHANGED <<is_running, task, processed_list, file_processed_list,
                   file_processed_comments, feeds_list, list_to_reply,
                   comment_writes, like_writes, inserted_feeds, pinned_feeds>>
    /\ UNCHANGED <<cookieVars, gtkVars, senderVars, silentVars, lifecycleVars, read_call,
                   api_call>>

\* The 300 seconds after a pass that raised are over.
Retry ==
    /\ task = "backoff"
    /\ task' = "sleep"
    /\ UNCHANGED <<is_running, processed_list, processed_comments, file_processed_list,
                   file_processed_comments, feeds_list, list_to_reply,
                   comment_writes, like_writes, inserted_feeds, inserted_threads,
                   pinned_feeds>>
    /\ UNCHANGED <<cookieVars, gtkVars, senderVars, silentVars, lifecycleVars, read_call,
                   api_call>>

\* FeedMonitor.__init__, with no dedup file on disk.
MonitorIdle ==
    /\ is_running = FALSE
    /\ task = "none"
    /\ processed_list = <<>>
    /\ processed_comments = <<>>
    /\ file_processed_list = <<>>
    /\ file_processed_comments = <<>>
    /\ feeds_list = <<>>
    /\ list_to_reply = <<>>
    /\ comment_writes = 0
    /\ like_writes = 0
    /\ inserted_feeds = <<>>
    /\ inserted_threads = <<>>
    /\ pinned_feeds = <<>>
    /\ monitor_call = "none"
    /\ cancelled_at = "none"
    /\ alive = 0
    /\ passes = 0

(***************************************************************************)
(* scheduled_tasks.py: ScheduleSender                                      *)
(***************************************************************************)

\* The clock counts half minutes: a minute is MinuteTicks of them, the 60 seconds
\* of the send guard and of the sleep likewise. A day has DayMinutes minutes and the
\* clock runs over MaxDays days after its first.
MinuteTicks == 2
DayMinutes == 3
MaxDays == 2

DayTicks == DayMinutes * MinuteTicks
DateOf(t) == t \div DayTicks
\* strftime("%H:%M"): the minute of the day.
MinuteOf(t) == (t % DayTicks) \div MinuteTicks

\* The configurations: schedule.schedule_times as minutes of the day, written as
\* strftime writes them, and schedule.probability in percent.
ScheduleChoices == {<<1>>, <<0, 2>>}
ProbabilityChoices == {100, 50}
\* The values random.random() takes, in percent.
RandomDraws == {0, 99}

\* list.remove(x): without the first occurrence of x.
Remove(l, x) ==
    LET k == CHOOSE i \in 1..Len(l) : l[i] = x /\ \A j \in 1..(i - 1) : l[j] # x
    IN  SubSeq(l, 1, k - 1) \o SubSeq(l, k + 1, Len(l))

\* A decision that never declines a day.
_check_today_send_decision_yes(p, draw) == TRUE

\* _check_today_send_decision: random.random() < p
_check_today_send_decision(p, draw) == draw < p

\* _generate_fluctuate_table with fluctuation_minutes = 0: the sorted copy of the
\* configured times (the configurations are sorted).
_generate_fluctuate_table(times) == times

\* ScheduleSender.start(), called when no stop() is awaiting: a no-op when the
\* sender runs, else the table and the decision of today are drawn and the loop
\* task is created.
SenderStart ==
    /\ sender_call # "stopping"
    /\ sender_call' = "start"
    /\ IF AlreadyRunning(sender_is_running)
       THEN UNCHANGED <<sender_is_running, last_reset_date, fluctuate_table,
                        today_send_enabled, sender_task, sender_alive>>
       ELSE /\ sender_is_running' = TRUE
            /\ last_reset_date' = DateOf(clock)
            /\ fluctuate_table' = _generate_fluctuate_table(schedule_times)
            /\ \E draw \in RandomDraws :
                 today_send_enabled' = _check_today_send_decision(probability, draw)
            /\ sender_task' = "tick"
            /\ sender_alive' = sender_alive + 1
    /\ UNCHANGED <<schedule_times, probability, clock, last_send_time, loop_current_time,
                   wake_time, fired_date, fired_minutes, refired, send_result,
                   monitor_call, cancelled_at, alive>>
    /\ UNCHANGED <<cookieVars, gtkVars, silentVars, monitorVars, passes, read_call,
                   api_call>>

\* ScheduleSender.stop() up to its await: a no-op when the sender does not run,
\* else the flag is cleared and the task is cancelled where it waits, in its
\* sleep or in send_scheduled_feed.
SenderStop ==
    /\ sender_call # "stopping"
    /\ IF ~sender_is_running
       THEN /\ sender_call' = "stop"
            /\ UNCHANGED <<sender_is_running, sender_task, send_result>>
       ELSE /\ sender_call' = "stopping"
            /\ sender_is_running' = FALSE
            /\ sender_task' = "cancelled"
            /\ send_result' = IF sender_task = "send" THEN "cancelled" ELSE send_result
    /\ UNCHANGED <<schedule_times, probability, clock, fluctuate_table, last_reset_date,
                   today_send_enabled, last_send_time, loop_current_time, wake_time,
                   fired_date, fired_minutes, refired, monitor_call, cancelled_at, alive,
                   sender_alive>>
    /\ UNCHANGED <<cookieVars, gtkVars, silentVars, monitorVars, passes, read_call,
                   api_call>>

\* The CancelledError in the loop task: the loop is left.
SenderCancelled ==
    /\ sender_task = "cancelled"
    /\ sender_task' = "none"
    /\ loop_current_time' = 0
    /\ wake_time' = 0
    /\ sender_alive' = sender_alive - 1
    /\ UNCHANGED <<sender_is_running, schedule_times, probability, clock, fluctuate_table,
                   last_reset_date, today_send_enabled, last_send_time, fired_date,
                   fired_minutes, refired, send_result, monitor_call, cancelled_at, alive,
                   sender_call>>
    /\ UNCHANGED <<cookieVars, gtkVars, silentVars, monitorVars, passes, read_call,
                   api_call>>

\* ScheduleSender.stop() returns: the awaited task is done.
SenderStopped ==
    /\ sender_call = "stopping"
    /\ Unwound(sender_task)
    /\ sender_call' = "stop"
    /\ UNCHANGED <<monitor_call, cancelled_at, alive, sender_alive>>
    /\ UNCHANGED <<cookieVars, gtkVars, silentVars, monitorVars, senderVars, passes,
                   read_call, api_call>>

\* A guard that lets every send through.
MaySendAlways(now_, last) == TRUE

\* The guard of a send: more than 60 seconds since the last one started.
MaySend(now_, last) == now_ - last > MinuteTicks

\* One round of _schedule_loop up to its first await: the reset at a new date,
\* then the test of the current minute.
SenderTick ==
    /\ sender_task = "tick"
    /\ \E draw \in RandomDraws :
        LET reset == DateOf(clock) # last_reset_date
            table == IF reset THEN _generate_fluctuate_table(schedule_times)
                     ELSE fluctuate_table
            enabled == IF reset THEN _check_today_send_decision(probability, draw)
                       ELSE today_send_enabled
            minute == MinuteOf(clock)
            due == minute \in Range(table)
            again == fired_date = DateOf(clock) /\ minute \in fired_minutes
        IN  /\ last_reset_date' = DateOf(clock)
            /\ today_send_enabled' = enabled
            /\ loop_current_time' = minute
            /\ IF due /\ enabled /\ MaySend(clock, last_send_time)
               THEN \* send_scheduled_feed is awaited
                    /\ last_send_time' = clock
                    /\ fired_date' = DateOf(clock)
                    /\ fired_minutes' = IF fired_date = DateOf(clock)
                                        THEN fired_minutes \cup {minute} ELSE {minute}
                    /\ refired' = (refired \/ again)
                    /\ send_result' = "running"
                    /\ fluctuate_table' = table
                    /\ sender_task' = "send"
                    /\ UNCHANGED wake_time
               ELSE /\ fluctuate_table' = IF due /\ ~enabled THEN Remove(table, minute)
                                          ELSE table
                    /\ sender_task' = "sleep"
                    /\ wake_time' = clock + MinuteTicks
                    /\ UNCHANGED <<last_send_time, fired_date, fired_minutes, refired,
                                   send_result>>
    /\ UNCHANGED <<sender_is_running, schedule_times, probability, clock>>
    /\ UNCHANGED <<cookieVars, gtkVars, silentVars, monitorVars, lifecycleVars, read_call,
                   api_call>>

\* send_scheduled_feed is over: it returned (whether the feed was published or
\* not) and the time is removed from the table, or it raised and the handler of
\* the loop sleeps.
SenderSent ==
    /\ sender_task = "send"
    /\ \E raised \in BOOLEAN :
        /\ fluctuate_table' = IF raised THEN fluctuate_table
                              ELSE Remove(fluctuate_table, loop_current_time)
        /\ send_result' = IF raised THEN "raised" ELSE "returned"
    /\ sender_task' = "sleep"
    /\ wake_time' = clock + MinuteTicks
    /\ UNCHANGED <<sender_is_running, schedule_times, probability, clock, last_reset_date,
                   today_send_enabled, last_send_time, loop_current_time,
                   fired_date, fired_minutes, refired>>
    /\ UNCHANGED <<cookieVars, gtkVars, silentVars, monitorVars, lifecycleVars, read_call,
                   api_call>>

\* asyncio.sleep(60) is over.
SenderWake ==
    /\ sender_task = "sleep"
    /\ clock >= wake_time
    /\ sender_task' = "tick"
    /\ wake_time' = 0
    /\ UNCHANGED <<sender_is_running, schedule_times, probability, clock, fluctuate_table,
                   last_reset_date, today_send_enabled, last_send_time, loop_current_time,
                   fired_date, fired_minutes, refired, send_result>>
    /\ UNCHANGED <<cookieVars, gtkVars, silentVars, monitorVars, lifecycleVars, read_call,
                   api_call>>

\* Half a minute passes. A round of the loop takes no time and a sleep ends when
\* it is due; a send takes any time.
SenderClock ==
    /\ clock < (MaxDays + 1) * DayTicks - 1
    /\ sender_task \notin {"tick", "cancelled"}
    /\ sender_call # "stopping"
    /\ ~(sender_task = "sleep" /\ clock >= wake_time)
    /\ clock' = clock + 1
    /\ UNCHANGED <<sender_is_running, sender_task, schedule_times, probability,
                   fluctuate_table, last_reset_date, today_send_enabled, last_send_time,
                   loop_current_time, wake_time, fired_date, fired_minutes, refired,
                   send_result>>
    /\ UNCHANGED <<cookieVars, gtkVars, silentVars, monitorVars, lifecycleVars, read_call,
                   api_call>>

\* ScheduleSender.__init__ under the default configuration, at the first instant
\* of a day.
SenderIdle ==
    /\ sender_is_running = FALSE
    /\ sender_task = "none"
    /\ schedule_times = <<1>>
    /\ probability = 100
    /\ clock = DayTicks
    /\ fluctuate_table = <<>>
    /\ last_reset_date = 0
    /\ today_send_enabled = TRUE
    /\ last_send_time = 0
    /\ loop_current_time = 0
    /\ wake_time = 0
    /\ fired_date = 0
    /\ fired_minutes = {}
    /\ refired = FALSE
    /\ send_result = "none"
    /\ sender_call = "none"
    /\ sender_alive = 0

(***************************************************************************)
(* qzone_api.py: get_list; actions.py: ReadFeedAction                      *)
(***************************************************************************)

MaxMsgs == 2

\* The display name of the logged-in account, and the one of a friend.
uin_nickname == "Mai"

\* The items of the answer: a tid and, when the key is there, the names of the
\* comments under it.
CommentLists == {<<>>, <<"Ann">>, <<uin_nickname>>, <<"Ann", uin_nickname>>}
Msgs == {m \in [tid : 1..MaxMsgs, has_commentlist : BOOLEAN, commentlist : CommentLists] :
           ~m.has_commentlist => m.commentlist = <<>>}
MsgLists == {<<>>} \cup {<<m>> : m \in Msgs}
                   \cup {l \in {<<m, n>> : m \in Msgs, n \in Msgs} : l[1].tid # l[2].tid}

\* The answers of the remote: the transport status, whether the body parses as
\* JSON, whether it carries logininfo, its code, its message and its msglist,
\* which is read only in an answer that has all of these right.
Responses ==
    {res \in [status_code : {200, 500}, json : BOOLEAN, logininfo : BOOLEAN,
              code : {0, 4}, message : {"denied"}, msglist : MsgLists] :
       res.msglist # <<>> => res.status_code = 200 /\ res.json /\ res.logininfo /\ res.code = 0}

\* The texts of the error markers get_list builds itself.
NothingNew == "seen"
Unseen(e) == e \o ", nothing seen"

\* The account of a display name.
UinOf(name) == IF name = uin_nickname THEN qq_account ELSE "friend"

\* A filter that keeps every item.
IsCommentNever(msg, target) == FALSE

\* A comment of msg bears the display name of the logged-in account, and the
\* feed is not the account's own.
IsComment(msg, target) ==
    /\ msg.has_commentlist
    /\ \E i \in 1..Len(msg.commentlist) : msg.commentlist[i] = uin_nickname
    /\ target # qq_account

\* The dict stored for an item that is kept.
FeedOf(msg) ==
    [tid |-> msg.tid,
     comments |-> [i \in 1..Len(msg.commentlist) |-> [uin |-> UinOf(msg.commentlist[i])]]]

\* The loop over msglist.
RECURSIVE Extract(_, _)
Extract(msglist, target) ==
    IF msglist = <<>> THEN <<>>
    ELSE IF IsComment(Head(msglist), target) THEN Extract(Tail(msglist), target)
    ELSE <<FeedOf(Head(msglist))>> \o Extract(Tail(msglist), target)

ErrorMarker(text) == [raised |-> FALSE, feeds |-> <<[error |-> text]>>]

\* A get_list that returns the items kept even when there is none.
get_list_plain(target, res) ==
    IF res.status_code # 200 THEN [raised |-> TRUE, feeds |-> <<>>]
    ELSE IF ~res.json THEN [raised |-> TRUE, feeds |-> <<>>]
    ELSE IF ~res.logininfo THEN ErrorMarker(Unseen("AttributeError"))
    ELSE IF res.code # 0 THEN ErrorMarker(res.message)
    ELSE [raised |-> FALSE, feeds |-> Extract(res.msglist, target)]

\* get_list: raises on a transport status other than 200; raises on a body that
\* is not JSON, its handler reading json_data, which is unbound; a body without
\* logininfo gives the marker of the AttributeError; a nonzero code gives the
\* marker of the remote message; else the items kept, or the marker NothingNew.
get_list(target, res) ==
    IF res.status_code # 200 THEN [raised |-> TRUE, feeds |-> <<>>]
    ELSE IF ~res.json THEN [raised |-> TRUE, feeds |-> <<>>]
    ELSE IF ~res.logininfo THEN ErrorMarker(Unseen("AttributeError"))
    ELSE IF res.code # 0 THEN ErrorMarker(res.message)
    ELSE LET feeds == Extract(res.msglist, target)
         IN  IF Len(feeds) = 0 THEN ErrorMarker(NothingNew)
             ELSE [raised |-> FALSE, feeds |-> feeds]

\* read_feed: an exception of get_list gives the empty list.
read_feed(target, res) ==
    LET got == get_list(target, res) IN IF got.raised THEN <<>> ELSE got.feeds

\* first_feed.get("error")
IsError(feed) == "error" \in DOMAIN feed

\* What the feeds of the list meet in ReadFeedAction: all is "ok", or one feed
\* has the step that fails, "generate", "comment" or "like".
Outcomes ==
    {o \in [1..MaxMsgs -> {"ok", "generate", "comment", "like"}] :
       \A i, j \in 1..MaxMsgs : o[i] # "ok" /\ o[j] # "ok" => i = j}

\* The loop of ReadFeedAction over feeds_list: a processed feed is skipped, a
\* failure returns at once, else comment_feed and like_feed are called and the
\* feed is marked.
RECURSIVE ReadLoop(_, _, _, _)
ReadLoop(feeds, outcome, processed, writes) ==
    IF feeds = <<>> THEN [writes |-> writes, processed |-> processed, done |-> TRUE]
    ELSE LET fid == Head(feeds).tid
             o == outcome[Len(feeds)]
         IN  IF fid \in Range(processed)
             THEN ReadLoop(Tail(feeds), outcome, processed, writes)
             ELSE IF o = "generate"
             THEN [writes |-> writes, processed |-> processed, done |-> FALSE]
             ELSE IF o = "comment"
             THEN [writes |-> writes + 1, processed |-> processed, done |-> FALSE]
             ELSE IF o = "like"
             THEN [writes |-> writes + 2, processed |-> processed, done |-> FALSE]
             ELSE ReadLoop(Tail(feeds), outcome, MarkedFeeds(processed, fid), writes + 2)

\* ReadFeedAction.execute for the feeds of target, once: renew_cookies,
\* read_feed, the tests of the list, the loop and the save that follows a loop
\* that ended.
ReadFeedExecuteOn(target, res, renewed, outcome) ==
    /\ read_call.target = "none"
    /\ LET feeds == IF renewed THEN read_feed(target, res) ELSE <<>>
            run == IF feeds = <<>> \/ IsError(feeds[1])
                   THEN [writes |-> 0, processed |-> file_processed_list, done |-> FALSE]
                   ELSE ReadLoop(feeds, outcome, file_processed_list, 0)
        IN  /\ read_call' = [target |-> target, res |-> res, renewed |-> renewed,
                             got |-> IF renewed THEN get_list(target, res)
                                     ELSE [raised |-> FALSE, feeds |-> <<>>],
                             writes |-> run.writes,
                             file_before |-> file_processed_list,
                             comments_before |-> file_processed_comments]
            /\ file_processed_list' = IF run.done THEN run.processed
                                      ELSE file_processed_list
    /\ UNCHANGED <<is_running, task, processed_list, processed_comments,
                   file_processed_comments, feeds_list, list_to_reply, comment_writes,
                   like_writes, inserted_feeds, inserted_threads, pinned_feeds>>
    /\ UNCHANGED <<cookieVars, gtkVars, silentVars, senderVars, lifecycleVars, api_call>>

\* The action is taken with any target, any answer of the remote and any outcome
\* of its steps.
ReadFeedExecute ==
    \E target \in {"friend", qq_account}, res \in Responses, renewed \in BOOLEAN,
       outcome \in Outcomes :
        ReadFeedExecuteOn(target, res, renewed, outcome)

\* The action is taken on a friend's wall that shows one feed without comments,
\* and every step succeeds.
ReadOneFeed ==
    \E tid \in 1..MaxMsgs :
        ReadFeedExecuteOn("friend",
                          [status_code |-> 200, json |-> TRUE, logininfo |-> TRUE,
                           code |-> 0, message |-> "denied",
                           msglist |-> <<[tid |-> tid, has_commentlist |-> FALSE,
                                          commentlist |-> <<>>]>>],
                          TRUE, [i \in 1..MaxMsgs |-> "ok"])

\* The most entries of data in an answer to monitor_get_list.
MaxEntries == 2

\* The entries of data: None, or a dict with its appid, its uin ("" when it is
\* missing), its key and html (present or not) and, in the html, the data-islike
\* of the anchor of class qz_like_btn_v3 and the one of another anchor that has
\* the attribute ("absent": no such anchor; "None": the anchor has no such
\* attribute). The entries that are not well formed come in one shape each.
Entries ==
    {[null |-> TRUE]}
    \cup {[null |-> FALSE, appid |-> e[1], uin |-> e[2], key |-> e[3], html |-> e[4],
           like_btn |-> "0", other |-> "absent"] :
            e \in {<<"4", "friend", "k", TRUE>>, <<"311", "", "k", TRUE>>,
                   <<"311", "friend", "", TRUE>>, <<"311", "friend", "k", FALSE>>}}
    \cup [null : {FALSE}, appid : {"311"}, uin : {qq_account, "friend"}, key : {"k"},
          html : {TRUE}, like_btn : {"1", "None", "absent"}, other : {"1", "absent"}]

\* The answers to monitor_get_list: the transport status, whether json5 parses
\* the body down to data.data, and the entries.
ListResponses ==
    {res \in [status_code : {200, 500}, parsed : BOOLEAN,
              data : UNION {[1..n -> Entries] : n \in 0..MaxEntries}] :
       res.data # <<>> => res.status_code = 200 /\ res.parsed}

\* data_islike: the attribute of the anchor of class qz_like_btn_v3 when there
\* is one, else the one of the first anchor that has the attribute, else None.
data_islike(feed) ==
    IF feed.like_btn # "absent" THEN feed.like_btn
    ELSE IF feed.other # "absent" THEN feed.other
    ELSE "None"

\* A test that skips every feed that was read.
SkippedOnceRead(feed) == data_islike(feed) = "1"

\* if is_read and target_qq != str(self.uin): continue
SkippedAsRead(feed) == data_islike(feed) = "1" /\ feed.uin # qq_account

\* The loop over data: None, an appid other than '311', a missing uin or key
\* and an empty html are passed over, a feed that was read likewise, and the
\* others are appended.
RECURSIVE MonitorFeeds(_)
MonitorFeeds(data) ==
    IF data = <<>> THEN <<>>
    ELSE LET feed == Head(data)
         IN  IF \/ feed.null
                \/ feed.appid # "311"
                \/ feed.uin = "" \/ feed.key = ""
                \/ ~feed.html
                \/ SkippedAsRead(feed)
             THEN MonitorFeeds(Tail(data))
             ELSE <<[target_qq |-> feed.uin, tid |-> feed.key,
                     liked |-> data_islike(feed)]>> \o MonitorFeeds(Tail(data))

\* monitor_get_list: raises on a transport status other than 200; a body that
\* does not parse leaves data a string, whose characters have no get, and the
\* handler returns the empty list.
monitor_get_list(res) ==
    IF res.status_code # 200 THEN [raised |-> TRUE, feeds |-> <<>>]
    ELSE IF ~res.parsed THEN [raised |-> FALSE, feeds |-> <<>>]
    ELSE [raised |-> FALSE, feeds |-> MonitorFeeds(res.data)]

\* A call of monitor_get_list, once.
MonitorGetList ==
    /\ api_call.op = "none"
    /\ \E res \in ListResponses :
         api_call' = [op |-> "monitor_get_list", res |-> res, out |-> monitor_get_list(res)]
    /\ UNCHANGED <<cookieVars, gtkVars, silentVars, monitorVars, senderVars, lifecycleVars,
                   read_call>>

\* No call yet.
ApiIdle == api_call = [op |-> "none"]

\* No call yet.
ReadIdle ==
    read_call = [target |-> "none",
                 res |-> [status_code |-> 200, json |-> FALSE, logininfo |-> FALSE,
                          code |-> 0, message |-> "denied", msglist |-> <<>>],
                 renewed |-> FALSE, got |-> [raised |-> FALSE, feeds |-> <<>>],
                 writes |-> 0, file_before |-> <<>>, comments_before |-> <<>>]

(***************************************************************************)
(* Specifications                                                          *)
(***************************************************************************)

InitCookie == CookieInit /\ GtkIdle /\ ReadIdle /\ ApiIdle /\ SilentIdle /\ MonitorIdle /\ SenderIdle

SpecCookie == InitCookie /\ [][NextCookie]_vars

InitRenew ==
    /\ cookie_methods \in {DefaultMethods, <<"qrcode", "napcat">>}
    /\ now = 1
    /\ last_qr_login_time = 0
    /\ cookie_file \in {NoFile, "ck_disk"}
    /\ renew_call = NoCall
    /\ qr_success_time = 0
    /\ refresh_time = 0
    /\ renewing = NotRenewing
    /\ GtkIdle /\ SilentIdle /\ MonitorIdle /\ SenderIdle /\ ReadIdle /\ ApiIdle

NextRenew == (\E c \in Callers : RenewEnter(c) \/ RenewResume(c)) \/ Tick

SpecRenew == InitRenew /\ [][NextRenew]_vars

InitGtk == skey \in Keys /\ gtk = <<>> /\ ReadIdle /\ ApiIdle /\ CookieIdle /\ SilentIdle /\ MonitorIdle /\ SenderIdle

NextGtk == GenerateGtk

SpecGtk == InitGtk /\ [][NextGtk]_vars

InitSilent ==
    /\ silent_periods \in UNION {[1..n -> PeriodChoices] : n \in 0..MaxPeriods}
    /\ silent_hours = ConfigText(silent_periods)
    /\ like_during_silent \in BOOLEAN
    /\ comment_during_silent \in BOOLEAN
    /\ minute_of_day \in SampleMinutes
    /\ silent_result = <<>>
    /\ CookieIdle
    /\ GtkIdle
    /\ ReadIdle
    /\ ApiIdle
    /\ MonitorIdle
    /\ SenderIdle

NextSilent == CheckSilent

SpecSilent == InitSilent /\ [][NextSilent]_vars

\* The monitor, configured with the silent period 23:00-07:00 and the default
\* permissions: likes during it, no comments.
MonitorConfig ==
    /\ silent_periods = <<Range2(23, 0, 7, 0)>>
    /\ silent_hours = ConfigText(silent_periods)
    /\ like_during_silent = TRUE
    /\ comment_during_silent = FALSE
    /\ minute_of_day = 0
    /\ silent_result = <<>>

Init == MonitorIdle /\ MonitorConfig /\ CookieIdle /\ GtkIdle /\ ReadIdle /\ ApiIdle /\ SenderIdle

Next ==
    \/ Start
    \/ Stop
    \/ Cancelled
    \/ Stopped
    \/ CheckFeeds
    \/ MonitorReadFeed
    \/ OwnFeed
    \/ ReplyComment
    \/ FriendFeed
    \/ Retry

Spec == Init /\ [][Next]_vars

\* The monitor in front of a remote whose feed list never changes: every pass
\* reads the same list, short enough for processed_list to hold all of it.
InitSameFeed ==
    /\ MonitorConfig
    /\ CookieIdle
    /\ GtkIdle
    /\ ReadIdle
    /\ ApiIdle
    /\ SenderIdle
    /\ is_running = FALSE
    /\ task = "none"
    /\ processed_list = <<>>
    /\ processed_comments = <<>>
    /\ file_processed_list = <<>>
    /\ file_processed_comments = <<>>
    /\ feeds_list = <<>>
    /\ list_to_reply = <<>>
    /\ comment_writes = 0
    /\ like_writes = 0
    /\ inserted_feeds = <<>>
    /\ inserted_threads = <<>>
    /\ pinned_feeds \in {l \in FeedLists : l # <<>> /\ Len(l) <= processed_feeds_cache_size}
    /\ monitor_call = "none"
    /\ cancelled_at = "none"
    /\ alive = 0
    /\ passes = 0

NextSameFeed ==
    \/ Start
    \/ CheckFeeds
    \/ MonitorReadSameFeed
    \/ OwnFeed
    \/ ReplyComment
    \/ FriendFeed
    \/ Retry

SpecSameFeed == InitSameFeed /\ [][NextSameFeed]_vars

\* The monitor started and stopped at any time, in front of a remote that answers
\* every pass with the bot's own feed and one friend's feed.
InitRestart ==
    /\ MonitorConfig
    /\ CookieIdle
    /\ GtkIdle
    /\ ReadIdle
    /\ ApiIdle
    /\ SenderIdle
    /\ is_running = FALSE
    /\ task = "none"
    /\ processed_list = <<>>
    /\ processed_comments = <<>>
    /\ file_processed_list = <<>>
    /\ file_processed_comments = <<>>
    /\ feeds_list = <<>>
    /\ list_to_reply = <<>>
    /\ comment_writes = 0
    /\ like_writes = 0
    /\ inserted_feeds = <<>>
    /\ inserted_threads = <<>>
    /\ pinned_feeds \in {l \in FeedLists : Len(l) = 2 /\ watched_fid \in Range(l)
                                           /\ Range(l) \cap OwnTids # {}}
    /\ monitor_call = "none"
    /\ cancelled_at = "none"
    /\ alive = 0
    /\ passes = 0

NextRestart ==
    \/ Start
    \/ Stop
    \/ Cancelled
    \/ Stopped
    \/ CheckFeeds
    \/ MonitorReadSameFeed
    \/ OwnFeed
    \/ ReplyComment
    \/ FriendFeed
    \/ Retry

SpecRestart == InitRestart /\ [][NextRestart]_vars

\* The monitor and ReadFeedAction on the one processed_list.json. execute is one
\* step here: its load, its loop and its save are not interleaved with the
\* monitor.
NextShared == NextSameFeed \/ ReadOneFeed

SpecShared == InitSameFeed /\ [][NextShared]_vars

\* The monitor under each setting of the two permissions of the silent period
\* 23:00-07:00, in front of a remote that shows one friend's feed.
InitGated ==
    /\ silent_periods = <<Range2(23, 0, 7, 0)>>
    /\ silent_hours = ConfigText(silent_periods)
    /\ like_during_silent \in BOOLEAN
    /\ comment_during_silent \in BOOLEAN
    /\ minute_of_day = 0
    /\ silent_result = <<>>
    /\ CookieIdle
    /\ GtkIdle
    /\ ReadIdle
    /\ ApiIdle
    /\ SenderIdle
    /\ is_running = FALSE
    /\ task = "none"
    /\ processed_list = <<>>
    /\ processed_comments = <<>>
    /\ file_processed_list = <<>>
    /\ file_processed_comments = <<>>
    /\ feeds_list = <<>>
    /\ list_to_reply = <<>>
    /\ comment_writes = 0
    /\ like_writes = 0
    /\ inserted_feeds = <<>>
    /\ inserted_threads = <<>>
    /\ pinned_feeds = <<watched_fid>>
    /\ monitor_call = "none"
    /\ cancelled_at = "none"
    /\ alive = 0
    /\ passes = 0

NextGated ==
    \/ Start
    \/ CheckFeeds
    \/ MonitorReadSameFeed
    \/ FriendFeed
    \/ Retry

SpecGated == InitGated /\ [][NextGated]_vars

\* send_feed called with and without images, with any answer of the remote.
InitSend == MonitorIdle /\ MonitorConfig /\ CookieIdle /\ GtkIdle /\ ReadIdle /\ ApiIdle /\ SenderIdle

NextSend == SendFeed \/ SendFeedImages

SpecSend == InitSend /\ [][NextSend]_vars

\* publish_emotion called without images and with them.
NextPublish == SendFeed \/ PublishImages

SpecPublish == InitSend /\ [][NextPublish]_vars

\* monitor_get_list called once, with any answer of the remote.
NextMonitorList == MonitorGetList

SpecMonitorList == InitSend /\ [][NextMonitorList]_vars

\* A decorated function called once, with any outcomes of its attempts.
NextRetry == RetryCall

SpecRetry == InitSend /\ [][NextRetry]_vars

\* The monitor at the same feeds at every pass, the watched one first and after
\* it another friend's, the account's own or none, each round on record, under
\* each setting of the two permissions of the silent period.
InitRounds ==
    /\ silent_periods = <<Range2(23, 0, 7, 0)>>
    /\ silent_hours = ConfigText(silent_periods)
    /\ like_during_silent \in BOOLEAN
    /\ comment_during_silent \in BOOLEAN
    /\ minute_of_day = 0
    /\ silent_result = <<>>
    /\ CookieIdle
    /\ GtkIdle
    /\ ReadIdle
    /\ ApiIdle
    /\ SenderIdle
    /\ is_running = FALSE
    /\ task = "none"
    /\ processed_list = <<>>
    /\ processed_comments = <<>>
    /\ file_processed_list = <<>>
    /\ file_processed_comments = <<>>
    /\ feeds_list = <<>>
    /\ list_to_reply = <<>>
    /\ comment_writes = 0
    /\ like_writes = 0
    /\ inserted_feeds = <<>>
    /\ inserted_threads = <<>>
    /\ pinned_feeds \in {l \in FeedLists : l # <<>> /\ l[1] = watched_fid}
    /\ monitor_call = "none"
    /\ cancelled_at = "none"
    /\ alive = 0
    /\ passes = 0

NextRounds ==
    \/ Start
    \/ CheckFeeds
    \/ MonitorReadSameFeed
    \/ FriendFeedOnRecord
    \/ OwnFeed
    \/ ReplyComment
    \/ Retry

SpecRounds == InitRounds /\ [][NextRounds]_vars

\* The dedup dicts under any sequence of marks.
InitDedup == MonitorIdle /\ MonitorConfig /\ CookieIdle /\ GtkIdle /\ ReadIdle /\ ApiIdle /\ SenderIdle

NextDedup == MarkFeed \/ MarkComment

SpecDedup == InitDedup /\ [][NextDedup]_vars

\* The sender under each configuration, started and stopped at any time.
InitSender ==
    /\ sender_is_running = FALSE
    /\ sender_task = "none"
    /\ schedule_times \in ScheduleChoices
    /\ probability \in ProbabilityChoices
    /\ clock = DayTicks
    /\ fluctuate_table = <<>>
    /\ last_reset_date = 0
    /\ today_send_enabled = TRUE
    /\ last_send_time = 0
    /\ loop_current_time = 0
    /\ wake_time = 0
    /\ fired_date = 0
    /\ fired_minutes = {}
    /\ refired = FALSE
    /\ send_result = "none"
    /\ sender_call = "none"
    /\ sender_alive = 0
    /\ CookieIdle
    /\ GtkIdle
    /\ ReadIdle
    /\ ApiIdle
    /\ SilentIdle
    /\ MonitorIdle

NextSender ==
    \/ SenderStart
    \/ SenderStop
    \/ SenderCancelled
    \/ SenderStopped
    \/ SenderTick
    \/ SenderSent
    \/ SenderWake
    \/ SenderClock

\* ReadFeedAction.execute, called once with the dedup file empty or holding a
\* feed, and send_feed, called at any time.
InitRead ==
    /\ MonitorConfig
    /\ CookieIdle
    /\ GtkIdle
    /\ SenderIdle
    /\ ReadIdle
    /\ ApiIdle
    /\ is_running = FALSE
    /\ task = "none"
    /\ processed_list = <<>>
    /\ processed_comments = <<>>
    /\ file_processed_list \in {<<>>, <<watched_fid>>}
    /\ file_processed_comments = <<>>
    /\ feeds_list = <<>>
    /\ list_to_reply = <<>>
    /\ comment_writes = 0
    /\ like_writes = 0
    /\ inserted_feeds = <<>>
    /\ inserted_threads = <<>>
    /\ pinned_feeds = <<>>
    /\ monitor_call = "none"
    /\ cancelled_at = "none"
    /\ alive = 0
    /\ passes = 0

NextRead == ReadFeedExecute \/ SendFeed

SpecRead == InitRead /\ [][NextRead]_vars

SpecSender == InitSender /\ [][NextSender]_vars

\* Both schedulers, started and stopped at any time, the calls on one scheduler
\* made one after the other: the monitor in front of one friend feed, the sender
\* one minute before its only time, the last minute of the last day.
InitLifecycle ==
    /\ MonitorConfig
    /\ CookieIdle
    /\ GtkIdle
    /\ ReadIdle
    /\ ApiIdle
    /\ is_running = FALSE
    /\ task = "none"
    /\ processed_list = <<>>
    /\ processed_comments = <<>>
    /\ file_processed_list = <<>>
    /\ file_processed_comments = <<>>
    /\ feeds_list = <<>>
    /\ list_to_reply = <<>>
    /\ comment_writes = 0
    /\ like_writes = 0
    /\ inserted_feeds = <<>>
    /\ inserted_threads = <<>>
    /\ pinned_feeds = <<watched_fid>>
    /\ monitor_call = "none"
    /\ cancelled_at = "none"
    /\ alive = 0
    /\ passes = 0
    /\ sender_is_running = FALSE
    /\ sender_task = "none"
    /\ schedule_times = <<DayMinutes - 1>>
    /\ probability = 100
    /\ clock = (MaxDays + 1) * DayTicks - 2 * MinuteTicks
    /\ fluctuate_table = <<>>
    /\ last_reset_date = 0
    /\ today_send_enabled = TRUE
    /\ last_send_time = 0
    /\ loop_current_time = 0
    /\ wake_time = 0
    /\ fired_date = 0
    /\ fired_minutes = {}
    /\ refired = FALSE
    /\ send_result = "none"
    /\ sender_call = "none"
    /\ sender_alive = 0

NextLifecycle ==
    \/ Start
    \/ Stop
    \/ Cancelled
    \/ Stopped
    \/ CheckFeeds
    \/ MonitorReadSameFeed
    \/ FriendFeed
    \/ Retry
    \/ SenderStart
    \/ SenderStop
    \/ SenderCancelled
    \/ SenderStopped
    \/ SenderTick
    \/ SenderSent
    \/ SenderWake
    \/ SenderClock

SpecLifecycle == InitLifecycle /\ [][NextLifecycle]_vars

\* The monitor in front of one friend feed, started and stopped at any time; a
\* sleep of the loop that may end does end.
NextLoop ==
    \/ Start
    \/ Stop
    \/ Cancelled
    \/ Stopped
    \/ CheckFeeds
    \/ MonitorReadSameFeed
    \/ FriendFeed
    \/ Retry

\* A step of CheckFeeds, told by what every such step and no other does: the
\* loop was in the sleep of its interval and the parity of the calls flips.
CheckFeedsStep == task = "sleep" /\ passes' = 1 - passes

SpecLoop ==
    InitLifecycle /\ [][NextLoop]_vars /\ WF_passes(CheckFeedsStep) /\ WF_vars(Retry)

(***************************************************************************)
(* Claims about renew_cookies, on the record of the last call.             *)
(***************************************************************************)

Ran == renew_call.outcome \in {"ok", "raised"}

AllFailed == \A i \in 1..Len(renew_call.results) : renew_call.results[i] = None

\* The valid methods the loop reached, the qrcode strategy left out when its
\* cooldown skipped it.
Reached(k) ==
    SelectSeq(SubSeq(valid_methods(cookie_methods), 1, k),
              LAMBDA m : ~(m = "qrcode" /\ renew_call.qr_skipped))

\* C3: the strategies are attempted in the configured order, a failure moves on to
\* the next one, and the first success ends the loop: it is the last attempt, its
\* bundle is the one adopted, and no fallback read follows it.
C3_FallbackOrdering ==
    Ran =>
        LET n == Len(renew_call.attempts)
            v == valid_methods(cookie_methods)
        IN  /\ \E k \in 0..Len(v) :
                 /\ renew_call.attempts = Reached(k)
                 /\ (AllFailed => k = Len(v))
            /\ \A i \in 1..n : i < n => renew_call.results[i] = None
            /\ ~AllFailed =>
                 /\ renew_call.cookie_dict = renew_call.results[n]
                 /\ ~renew_call.fell_back
                 /\ renew_call.attempts[n] \in RemoteMethods
                        => renew_call.cookie_dict = BundleOf(renew_call.attempts[n])
                 /\ renew_call.outcome = "ok" => cookie_file = renew_call.results[n]

\* C3 witness: the default list [napcat, clientkey, qrcode, local] with the first two
\* failing and the third succeeding: three attempts, the third's bundle persisted.
C3_Witness ==
    /\ renew_call.outcome = "ok"
    /\ renew_call.attempts = <<"napcat", "clientkey", "qrcode">>
    /\ renew_call.results = <<None, None, "ck_qrcode">>
    /\ cookie_file = "ck_qrcode"

\* The case of C4: every strategy attempted failed, fallback_to_local is set and
\* the file holds a bundle.
C4_Case ==
    /\ Ran
    /\ AllFailed
    /\ renew_call.fallback
    /\ renew_call.pre_file # NoFile

Yielded ==
    \/ ~AllFailed
    \/ renew_call.fell_back /\ renew_call.pre_file # NoFile

\* C5 as stated: whenever a strategy or the fallback yields a bundle the call
\* completes without raising.
C5_RaisesOnlyWhenAllFail ==
    (Ran /\ Yielded) => renew_call.outcome = "ok"

\* C5 amended: the call raises exactly when no strategy and no fallback read
\* yielded a bundle, or when the bundle could not be written to the file.
C5_RaisesIffNoBundleOrNoWrite ==
    Ran =>
        /\ renew_call.cookie_dict # None <=> Yielded
        /\ renew_call.outcome = "raised" <=> (~Yielded \/ ~renew_call.write_ok)

\* C5 witness: the strategies failed, the fallback read yielded the bundle and the
\* call returned; and a call that raised with nothing yielded.
C5_Witness ==
    /\ Ran
    /\ AllFailed
    /\ renew_call.attempts # <<>>
    /\ renew_call.fell_back
    /\ renew_call.outcome = "ok"

\* A bundle was persisted less than MinRefreshHours before the call.
RefreshedWithinInterval ==
    renew_call.pre_refresh # 0 /\ renew_call.at - renew_call.pre_refresh < MinRefreshHours

\* C6: a call returns early exactly when a bundle was successfully refreshed within
\* the minimum interval, and an early return attempts nothing, reads and writes
\* nothing and leaves the file and the timestamp as they were.
C6_MinimumRefreshInterval ==
    renew_call.outcome # "none" =>
        /\ renew_call.outcome = "skipped" <=> RefreshedWithinInterval
        /\ renew_call.outcome = "skipped" =>
             /\ renew_call.attempts = <<>>
             /\ renew_call.reads = 0
             /\ ~renew_call.wrote
             /\ cookie_file = renew_call.pre_file
             /\ last_qr_login_time = renew_call.pre_last_qr

\* The qrcode strategy ran successfully less than QrCooldownHours before the call.
QrSucceededRecently ==
    qr_success_time # 0 /\ renew_call.at - qr_success_time < QrCooldownHours

\* C7: the qrcode strategy is skipped only when the qrcode strategy itself
\* succeeded within the cooldown.
C7_QrCooldownOnlyAfterQr ==
    (Ran /\ renew_call.qr_skipped) => QrSucceededRecently

(***************************************************************************)
(* Claims about generate_gtk.                                              *)
(***************************************************************************)

\* C9 as stated: the token of the empty string is 0.
C9_EmptyKeyGivesZero ==
    (gtk # <<>> /\ skey = <<>>) => gtk = <<"0">>

\* C9 amended: the token of the empty string is the seed 5381, not 0; every token
\* is a decimal numeral, and the token of a one-character string is 5381 * 33 + ord.
C9_EmptyKeyGivesSeed ==
    gtk # <<>> =>
        /\ skey = <<>> => gtk = <<"5", "3", "8", "1">>
        /\ Len(skey) = 1 => gtk = IntToStr(177573 + skey[1])
        /\ \A i \in 1..Len(gtk) : IsDigit(gtk[i])
        /\ Len(gtk) > 1 => gtk[1] # "0"

\* C9 witness: generate_gtk was called on the empty string.
C9_Witness == skey = <<>> /\ gtk = <<"5", "3", "8", "1">>

(***************************************************************************)
(* Claims about _is_in_silent_period.                                      *)
(***************************************************************************)

ValidRange(p) ==
    /\ p.kind = "range"
    /\ p.sh \in 0..23 /\ p.eh \in 0..23
    /\ p.sm \in 0..59 /\ p.em \in 0..59
StartOf(p) == p.sh * 60 + p.sm
EndOf(p) == p.eh * 60 + p.em

Text_23_07 == <<"2", "3", ":", "0", "0", "-", "0", "7", ":", "0", "0">>

\* C10: for a configuration of one range, start > end means the range spans
\* midnight (silent iff t >= start or t <= end), and start <= end means silent iff
\* start <= t <= end; "23:00-07:00" is silent at 23:30 and 06:30 and not at 12:00.
C10_Wraparound ==
    silent_result # <<>> =>
        /\ (Len(silent_periods) = 1 /\ ValidRange(silent_periods[1])) =>
             LET start == StartOf(silent_periods[1])
                 end == EndOf(silent_periods[1])
                 t == minute_of_day
             IN  silent_result[1] <=> (IF start > end THEN t >= start \/ t <= end
                                       ELSE start <= t /\ t <= end)
        /\ silent_hours = Text_23_07 =>
             /\ minute_of_day = 23 * 60 + 30 => silent_result[1]
             /\ minute_of_day = 6 * 60 + 30 => silent_result[1]
             /\ minute_of_day = 12 * 60 => ~silent_result[1]

\* C10 witness: "23:00-07:00" evaluated at 06:30 is silent.
C10_Witness ==
    /\ silent_hours = Text_23_07
    /\ minute_of_day = 6 * 60 + 30
    /\ silent_result # <<>>
    /\ silent_result[1]

(***************************************************************************)
(* Claims about the feed monitor and its dedup dicts.                      *)
(***************************************************************************)

\* C1: across the passes, their failures and the restarts, a friend feed that was
\* not evicted from processed_list gets at most one comment and at most one like
\* written by the monitor.
C1_AtMostOneWritePerFeed ==
    comment_writes <= 1 /\ like_writes <= 1

\* C2: passes over the same feed list, short enough for nothing to be evicted,
\* write one reaction per feed of the list: no second comment, no second like.
C2_OneReactionPerSnapshot ==
    watched_fid \in Range(pinned_feeds) => (comment_writes < 2 /\ like_writes < 2)

\* The last n elements of s, all of s when it is shorter.
LastN(s, n) == IF Len(s) <= n THEN s ELSE SubSeq(s, Len(s) - n + 1, Len(s))

KeySeq(d) == [i \in 1..Len(d) |-> d[i].fid]

InPeriod(p, t) ==
    /\ ValidRange(p)
    /\ IF StartOf(p) <= EndOf(p) THEN StartOf(p) <= t /\ t <= EndOf(p)
       ELSE t >= StartOf(p) \/ t <= EndOf(p)

\* C11: the call is silent iff the minute lies in the union of the configured
\* ranges; not silent, both permissions are true whatever the flags; silent, each
\* permission is its own flag.
C11_SilentUnionAndFlags ==
    silent_result # <<>> =>
        /\ silent_result[1] <=>
               \E i \in 1..Len(silent_periods) : InPeriod(silent_periods[i], minute_of_day)
        /\ ~silent_result[1] => (silent_result[2] /\ silent_result[3])
        /\ silent_result[1] => /\ silent_result[2] = like_during_silent
                               /\ silent_result[3] = comment_during_silent

\* C11 witness: two periods, the minute in the second one only, likes refused and
\* comments allowed during silence.
C11_Witness ==
    /\ Len(silent_periods) = 2
    /\ ~InPeriod(silent_periods[1], minute_of_day)
    /\ InPeriod(silent_periods[2], minute_of_day)
    /\ silent_result = <<TRUE, FALSE, TRUE>>
\* A send_scheduled_feed is over and the loop goes on.
SendOver == sender_task = "send" /\ sender_task' = "sleep"

\* A round of the loop runs in a minute of today's table on a day whose decision
\* is yes.
DueRound ==
    /\ sender_task = "tick"
    /\ sender_task' \in {"send", "sleep"}
    /\ today_send_enabled'
    /\ MinuteOf(clock) \in Range(fluctuate_table')

\* C12 as stated: the time a send was started for has left today's table as
\* soon as the send is over, whatever the outcome of the send.
C12_RemovedWhateverOutcome ==
    [][SendOver => loop_current_time \notin Range(fluctuate_table')]_vars

\* What the loop does keep: no configured time is sent for twice on one date,
\* restarts included; a round in a due minute of an enabled day starts the send
\* exactly when more than 60 seconds have passed since the last send started; and
\* the time leaves today's table exactly when send_scheduled_feed returns.
OncePerDayRemovedOnReturn ==
    /\ [](~refired)
    /\ [][DueRound => (sender_task' = "send" <=> MaySend(clock, last_send_time))]_vars
    /\ [][SendOver => (send_result' = "returned"
                         <=> loop_current_time \notin Range(fluctuate_table'))]_vars

\* The send for 1 raised, the time is still in the table one minute later on the
\* same date, and the round of that later minute is over.
RaisedSendKeepsTime ==
    /\ schedule_times = <<1>>
    /\ send_result = "raised"
    /\ fired_minutes = {1}
    /\ fired_date = DateOf(clock)
    /\ MinuteOf(clock) = 2
    /\ loop_current_time = 2
    /\ sender_task = "sleep"
    /\ fluctuate_table = <<1>>

\* C13 as stated: a time of today's table reached by a round of the loop has
\* left the table when the round is over, whatever the daily decision was.
C13_ReachedTimeRemoved ==
    sender_task = "sleep" => loop_current_time \notin Range(fluctuate_table)

\* The declined half of C13, which the loop keeps: a round in a due minute of a
\* declined day removes the time and starts no send.
DeclinedRoundRemoves ==
    [][(sender_task = "tick" /\ sender_task' # "none" /\ ~today_send_enabled')
         => /\ sender_task' = "sleep"
            /\ MinuteOf(clock) \notin Range(fluctuate_table')
            /\ UNCHANGED <<last_send_time, fired_minutes, send_result>>]_vars

\* C14: on each scheduler at most one loop task is alive, it is the one the
\* scheduler holds, and once stop() has returned, until the next start(), the
\* flag is clear and no loop task is left to call the remote or to write a
\* dedup file.
C14_Lifecycle ==
    /\ alive <= 1
    /\ sender_alive <= 1
    /\ alive = (IF task = "none" THEN 0 ELSE 1)
    /\ sender_alive = (IF sender_task = "none" THEN 0 ELSE 1)
    /\ monitor_call = "stop" => ~is_running /\ task = "none" /\ alive = 0
    /\ sender_call = "stop" => ~sender_is_running /\ sender_task = "none" /\ sender_alive = 0

\* C14: both stop() calls have returned, the one of the monitor after cancelling
\* a pass among its feeds, the one of the sender after cancelling a send.
C14_Witness ==
    /\ monitor_call = "stop"
    /\ cancelled_at = "feeds"
    /\ sender_call = "stop"
    /\ send_result = "cancelled"

\* C15: while the monitor is not stopped its loop task exists, whatever escaped
\* the passes; and from the backoff that follows an escaped exception the loop
\* goes on to another call of check_feeds unless the monitor is stopped.
C15_LoopSurvives ==
    /\ [](is_running => task # "none")
    /\ \A b \in {0, 1} :
         (task = "backoff" /\ passes = b) ~> (passes # b \/ ~is_running)

\* C15: an exception escaped the first call of check_feeds and the loop task is
\* alive in its backoff.
C15_Witness ==
    /\ task = "backoff"
    /\ passes = 1
    /\ is_running
    /\ alive = 1
\* ReadFeedAction.execute was called and reached get_list.
ReadDone == read_call.target # "none" /\ read_call.renewed

\* The call issued no write and left both dedup files as they were.
ReadInert ==
    /\ read_call.writes = 0
    /\ file_processed_list = read_call.file_before
    /\ file_processed_comments = read_call.comments_before

\* C16 as stated: when the answer, a JSON body with transport status 200,
\* carries a nonzero code, get_list gives the one marker of the remote message
\* without raising, and ReadFeedAction issues no write and changes no dedup
\* state.
C16_NonzeroCodeGivesRemoteMessage ==
    (ReadDone /\ read_call.res.status_code = 200 /\ read_call.res.json
              /\ read_call.res.code # 0)
        => /\ read_call.got = ErrorMarker(read_call.res.message)
           /\ ReadInert

\* The half of C16 the code keeps: whenever get_list raises or gives a marker,
\* ReadFeedAction issues no write and changes no dedup state.
MarkerIsInert ==
    (ReadDone /\ (read_call.got.raised \/ IsError(read_call.got.feeds[1]))) => ReadInert

\* get_list read the msglist of the answer.
ReadList ==
    /\ ReadDone
    /\ read_call.res.status_code = 200 /\ read_call.res.json
    /\ read_call.res.logininfo /\ read_call.res.code = 0

\* The tids of the items get_list returned.
ReturnedTids ==
    IF read_call.got.raised THEN {}
    ELSE {f.tid : f \in {g \in Range(read_call.got.feeds) : ~IsError(g)}}

\* A comment of msg bears the display name of the logged-in account.
BearsOwnName(msg) ==
    msg.has_commentlist /\ \E i \in 1..Len(msg.commentlist) : msg.commentlist[i] = uin_nickname

\* C17 as stated: an item of the answer is returned iff no comment of it bears
\* the display name of the logged-in account.
C17_OwnNameExcluded ==
    ReadList => \A i \in 1..Len(read_call.res.msglist) :
                  LET msg == read_call.res.msglist[i]
                  IN  msg.tid \in ReturnedTids <=> ~BearsOwnName(msg)

\* C17: when the target is another account, an item of the answer is returned
\* iff no comment of it bears the display name of the logged-in account; when the
\* target is the logged-in account itself, every item is returned.
C17_OwnNameExcludedOnOtherWalls ==
    ReadList => \A i \in 1..Len(read_call.res.msglist) :
                  LET msg == read_call.res.msglist[i]
                  IN  msg.tid \in ReturnedTids
                        <=> (read_call.target = qq_account \/ ~BearsOwnName(msg))

\* C17: of the two items of a friend, the one with a comment of the logged-in
\* account is left out and the other is returned.
C17_Witness ==
    /\ ReadList
    /\ read_call.target = "friend"
    /\ Len(read_call.res.msglist) = 2
    /\ BearsOwnName(read_call.res.msglist[1])
    /\ ~BearsOwnName(read_call.res.msglist[2])
    /\ ReturnedTids = {read_call.res.msglist[2].tid}

\* C18: publish_emotion(text, []) returns the tid of the answer when the
\* transport status is 200 and the body carries a tid, and raises in every other
\* case, where send_feed gives False; and no call of it changes a dedup dict or a
\* dedup file.
C18_PublishReturnsTidOrRaises ==
    /\ [](api_call.op = "publish" =>
            IF api_call.res.status_code = 200 /\ api_call.res.has_tid
            THEN ~api_call.out.raised /\ api_call.out.tid = api_call.res.tid /\ api_call.sent
            ELSE api_call.out.raised /\ ~api_call.sent)
    /\ [][api_call'.op = "publish" /\ api_call' # api_call
            => UNCHANGED <<processed_list, processed_comments, file_processed_list,
                           file_processed_comments>>]_vars

\* C18: the publish returned the tid 99 while the dedup file holds a feed.
C18_Witness ==
    /\ api_call.op = "publish"
    /\ api_call.res.status_code = 200
    /\ ~api_call.out.raised
    /\ api_call.out.tid = "99"
    /\ file_processed_list # <<>>

\* A step of ReplyComment that called reply.
Replied == task = "reply" /\ api_call'.op = "reply" /\ api_call' # api_call

\* C19: reply gives True exactly when the transport status is 200 and the code
\* extracted from the script is the integer 0; a nonzero code, the string '0', a
\* missing code and a text that does not parse all give False; and the comment
\* goes into processed_comments exactly when reply gave True.
C19_ReplyNeedsCodeZero ==
    /\ [](api_call.op = "reply" =>
            (api_call.out.ok <=> /\ api_call.res.status_code = 200
                                 /\ api_call.res.script /\ api_call.res.parses
                                 /\ api_call.res.code = "0"))
    /\ [][Replied =>
            IF api_call'.out.ok
            THEN api_call'.comment_tid \in Range(DictGet(processed_comments', api_call'.fid))
            ELSE UNCHANGED processed_comments]_vars

\* C19: the answer to the reply had status 200 and a nonzero code, and the pass
\* ended with nothing in processed_comments.
C19_Witness ==
    /\ api_call.op = "reply"
    /\ api_call.res.status_code = 200
    /\ api_call.res.code = "-3000"
    /\ ~api_call.out.ok
    /\ task = "sleep"
    /\ processed_comments = <<>>
    /\ file_processed_comments = <<>>

\* C20 as stated, for the reply call: when reply fails on a comment of a feed
\* that is not the last of the snapshot, the pass goes on with what is left of
\* the snapshot.
C20_FailedReplyLeavesPassRunning ==
    [][(Replied /\ ~api_call'.out.ok /\ Len(feeds_list) > 1)
         => task' \in {"feeds", "reply"} /\ feeds_list' # <<>>]_vars

(***************************************************************************)
(* Claims C21 to C30.                                                      *)
(***************************************************************************)

\* (h * 33) mod 2^31 by long multiplication on the two 16-bit halves of h.
Mul33Mod(h) ==
    AddMod((((h \div 65536) * 33) % 32768) * 65536, (h % 65536) * 33)

\* h0 = 5381, h(i+1) = h(i) * 33 + ord(c_i), evaluated modulo 2^31.
RECURSIVE Horner(_, _)
Horner(key, h) ==
    IF key = <<>> THEN h ELSE Horner(Tail(key), AddMod(Mul33Mod(h), Head(key)))

\* The recurrence in the integers, for keys short enough that it stays below 2^31.
RECURSIVE HornerExact(_, _)
HornerExact(key, h) ==
    IF key = <<>> THEN h ELSE HornerExact(Tail(key), h * 33 + Head(key))

\* C30: the value generate_gtk returns (as a decimal numeral) lies in 0 .. 2^31 - 1
\* and is the recurrence h0 = 5381, h(i+1) = h(i) * 33 + ord(c_i) evaluated modulo
\* 2^31; where the recurrence stays below 2^31 it is the recurrence itself.
C30_RollingHashMod31 ==
    gtk # <<>> =>
        /\ ParseInt(gtk) # <<>>
        /\ ParseInt(gtk)[1] \in 0..Mask31
        /\ ParseInt(gtk)[1] = Horner(skey, HashSeed)
        /\ Len(skey) <= 3 => ParseInt(gtk)[1] = HornerExact(skey, HashSeed)

\* C30 witness: a key whose hash passed 2^31 (5381 * 33^4 is above it) was hashed.
\* generate_gtk("~~~~~") is "288247835".
C30_Witness ==
    /\ skey = <<126, 126, 126, 126, 126>>
    /\ gtk = <<"2", "8", "8", "2", "4", "7", "8", "3", "5">>
    /\ ParseInt(gtk)[1] = Horner(skey, HashSeed)

\* renew_cookies went past the early return and adopted a bundle.
Adopted == renew_call.outcome \in {"ok", "raised"} /\ renew_call.cookie_dict # None

\* C29 as stated: a call that adopts a bundle and returns has written exactly that
\* bundle, which is what create_qzone_api loads next, and has set the timestamp to
\* the time of the call; a call whose write fails raises and leaves the timestamp
\* as it found it.
C29_AdoptedBundlePersisted ==
    Adopted =>
        /\ renew_call.outcome = "ok" =>
              /\ renew_call.wrote
              /\ create_qzone_api(cookie_file) = renew_call.cookie_dict
              /\ last_qr_login_time = renew_call.at
        /\ ~renew_call.write_ok =>
              /\ renew_call.outcome = "raised"
              /\ last_qr_login_time = renew_call.pre_last_qr

\* The same without the timestamp of the failed write: it holds.
AdoptedBundleWritten ==
    Adopted =>
        /\ renew_call.outcome = "ok" =>
              /\ renew_call.wrote
              /\ create_qzone_api(cookie_file) = renew_call.cookie_dict
              /\ last_qr_login_time = renew_call.at
        /\ ~renew_call.write_ok =>
              /\ renew_call.outcome = "raised"
              /\ ~renew_call.wrote
              /\ ~renew_call.qr_ok => last_qr_login_time = renew_call.pre_last_qr

\* The callers between their freshness check and their persist.
InFlight == {c \in Callers : renewing[c].pc = "await"}

\* C24 as stated: at most one caller is between its freshness check and its
\* persist, so at most one acquisition runs, and at most one QR login.
C24_RenewMutuallyExclusive == Cardinality(InFlight) <= 1

\* Two QR logins in flight: reachable.
TwoQrLogins ==
    /\ InFlight = Callers
    /\ \A c \in Callers : valid_methods(cookie_methods)[renewing[c].i] = "qrcode"

\* C21: the dicts the loop task held when it was cancelled are the content of the
\* two files when it ends, the files stay as they are while no loop task runs, and
\* the loop task of the next start() begins with the content of the files; with
\* these dicts a friend's feed in processed_list gets no comment and no like, and
\* a reply is never sent to a comment recorded under its feed in
\* processed_comments.
C21_DedupSurvivesRestart ==
    [][/\ (task = "cancelled" /\ task' = "none") =>
              /\ file_processed_list' = processed_list
              /\ file_processed_comments' = processed_comments
       /\ (task = "none" /\ task' = "none") =>
              UNCHANGED <<file_processed_list, file_processed_comments>>
       /\ (task = "none" /\ task' # "none") =>
              /\ processed_list' = file_processed_list
              /\ processed_comments' = file_processed_comments
       /\ (task = "feeds" /\ task' # "cancelled"
             /\ Head(feeds_list) \in Range(processed_list)) =>
              UNCHANGED <<comment_writes, like_writes, api_call, processed_list>>
       /\ Replied =>
              api_call'.comment_tid \notin
                  Range(DictGet(processed_comments, api_call'.fid))]_vars

\* C21 witness: after a stop() and a later start(), a pass meets a friend's feed
\* that is in the processed_list the new loop holds, and a replied comment is in
\* its processed_comments.
C21_Witness ==
    /\ cancelled_at = "restarted"
    /\ task = "feeds"
    /\ Head(feeds_list) \in Range(processed_list)
    /\ processed_comments # <<>>

\* check_feeds is about to handle a feed of the snapshot or a comment of a feed.
AtNextUnit == task \in {"feeds", "reply"}

\* C23 as stated: whenever check_feeds starts on the next feed or comment, the two
\* files hold every mark made so far, that is, they equal the dicts of the loop.
C23_MarksOnDiskBeforeNextUnit ==
    AtNextUnit =>
        /\ file_processed_list = processed_list
        /\ file_processed_comments = processed_comments

\* The same for processed_list.json alone: it holds.
FeedMarksOnDisk == AtNextUnit => file_processed_list = processed_list

\* C25 as stated: a feed id in processed_list.json is in every content the file
\* gets later, unless the later content is full, the cap having evicted it.
C25_NoLostUpdate ==
    [][\A f \in Range(file_processed_list) :
           \/ f \in Range(file_processed_list')
           \/ Len(file_processed_list') >= processed_feeds_cache_size]_vars

\* A call of check_feeds that finds the period silent and both permissions false.
SilentPass ==
    /\ task = "sleep"
    /\ passes' # passes
    /\ silent_result' = <<TRUE, FALSE, FALSE>>

\* C26: a comment is written under a friend's feed only in a pass whose
\* allow_comment holds and a like only in a pass whose allow_like holds, either
\* without the other; a pass that starts in a silent period with both permissions
\* false returns at once: renew_cookies is not called, no call goes to the remote
\* and both dicts, saved as they are, stay the same.
C26_WindowGating ==
    [][/\ comment_writes' > comment_writes => silent_result[3]
       /\ like_writes' > like_writes => silent_result[2]
       /\ SilentPass =>
              /\ task' = "sleep"
              /\ UNCHANGED <<cookieVars, api_call, read_call, processed_list,
                             processed_comments, comment_writes, like_writes>>
              /\ file_processed_list' = processed_list
              /\ file_processed_comments' = processed_comments]_vars

\* C26 witness: in a silent pass that allows likes and no comments the feed got
\* its like and no comment, and was marked.
C26_Witness ==
    /\ silent_result = <<TRUE, TRUE, FALSE>>
    /\ like_writes = 1
    /\ comment_writes = 0
    /\ watched_fid \in Range(processed_list)

\* A silent pass that allows comments and no likes wrote the comment alone.
CommentAlone ==
    /\ silent_result = <<TRUE, FALSE, TRUE>>
    /\ like_writes = 0
    /\ comment_writes = 1
    /\ watched_fid \in Range(processed_list)

\* A pass in a silent period with both permissions false has returned.
SilentPassDone ==
    /\ silent_result = <<TRUE, FALSE, FALSE>>
    /\ passes = 1
    /\ task = "sleep"

\* check_feeds is at a feed of the bot's own account, or at one of its comments.
AtOwnFeed == task \in {"feeds", "reply"} /\ Head(feeds_list) \in OwnTids

\* The author of a comment of a feed.
AuthorOf(fid, comment_tid) ==
    (CHOOSE c \in Range(comments_list(fid)) : c.comment_tid = comment_tid).qq_account

GenerationFailed ==
    /\ task = "reply"
    /\ task' # "cancelled"
    /\ api_call.op = "none"
    /\ api_call' = api_call
    /\ UNCHANGED cookieVars

\* C28 as stated, for the reply to a comment: when the generator fails the
\* comment is not marked and, with comments or feeds left in the snapshot, the
\* pass goes on to them.
C28_GenerationFailureSkipsOneUnit ==
    [][GenerationFailed =>
           /\ UNCHANGED processed_comments
           /\ (Len(list_to_reply) > 1 \/ Len(feeds_list) > 1) =>
                  task' \in {"feeds", "reply"}]_vars

\* The part about the failed unit alone: no call, no mark. It holds.
GenerationFailureLeavesUnitUnmarked ==
    [][GenerationFailed => UNCHANGED <<processed_comments, processed_list, comment_writes,
                                       like_writes>>]_vars

\* send_feed was called with images from the image provider, the API key is set
\* and every attempt of generate_image failed.
ProviderFailed ==
    /\ api_call.op = "publish_images"
    /\ api_call.out.use_ai
    /\ api_call.api_key
    /\ \A i \in 1..max_retries : api_call.attempts[i] # "True"

\* C22 as stated: when the image provider fails on every attempt, send_feed
\* publishes the post without images, and returns True when the publish went
\* through.
C22_ImageFailureDegradesToText ==
    ProviderFailed =>
        /\ api_call.out.published
        /\ api_call.out.images = 0
        /\ api_call.out.result = (IF publish_emotion(api_call.res).raised
                                  THEN "False" ELSE "True")

\* What the code does then: nothing is published, and send_feed raises.
ProviderFailureRaises ==
    ProviderFailed => ~api_call.out.published /\ api_call.out.result = "raised"

(***************************************************************************)
(* Claims C31 to C40.                                                      *)
(***************************************************************************)

\* A round of _schedule_loop up to its first await.
LoopTick == sender_task = "tick" /\ sender_task' \in {"send", "sleep"}

\* What a round leaves of a table: the table, or the table without the minute of
\* the round.
KeptOrConsumed(table) ==
    {table} \cup (IF MinuteOf(clock) \in Range(table)
                  THEN {Remove(table, MinuteOf(clock))} ELSE {})

\* The rounds of the loop alone: a round on a date other than last_reset_date
\* takes the date, regenerates the table from the configuration and draws the
\* decision again (a draw under probability 100 is yes); a round on the date of
\* last_reset_date keeps the decision and adds nothing to the table.
TickRegeneratesOncePerDate ==
    [][LoopTick =>
         /\ last_reset_date' = DateOf(clock)
         /\ DateOf(clock) # last_reset_date =>
                /\ fluctuate_table' \in
                       KeptOrConsumed(_generate_fluctuate_table(schedule_times))
                /\ probability = 100 => today_send_enabled'
         /\ DateOf(clock) = last_reset_date =>
                /\ fluctuate_table' \in KeptOrConsumed(fluctuate_table)
                /\ today_send_enabled' = today_send_enabled]_vars

\* C31 as stated: the table is regenerated and the decision drawn once per
\* calendar day, by the first round of the loop on a new date; while the date of
\* the last reset stays the same the decision stays and no time that left the
\* table comes back to it.
C31_RegeneratedOncePerDay ==
    /\ TickRegeneratesOncePerDate
    /\ [][last_reset_date' = last_reset_date =>
              /\ Range(fluctuate_table') \subseteq Range(fluctuate_table)
              /\ today_send_enabled' = today_send_enabled]_vars

\* The time 1 was sent for and removed, and a start() later on the same date the
\* table holds it again.
ConsumedTimeBack ==
    /\ schedule_times = <<1>>
    /\ fired_date = DateOf(clock)
    /\ fired_minutes = {1}
    /\ send_result = "returned"
    /\ sender_call = "start"
    /\ last_reset_date = DateOf(clock)
    /\ fluctuate_table = <<1>>
    /\ MinuteOf(clock) = 2

\* Every upload of the call was answered with status 200, ret 0 and a url that
\* holds '&bo='.
UploadsOk(uploads) ==
    \A i \in 1..Len(uploads) :
        uploads[i].status_code = 200 /\ uploads[i].ret = "0" /\ uploads[i].bo # ""

\* An upload the claim calls failed: a status other than 200, or a payload whose
\* ret is absent or not 0.
UploadFailed(u) == u.status_code # 200 \/ u.ret # "0"

\* C32: when every upload of a call of publish_emotion with n > 0 images is
\* answered well, the calls sent are the n uploads in the order of the list and
\* then the one publish call, whose pic_bo holds the references in the order of
\* the images; when some upload fails (status not 200, ret absent or not 0) the
\* call raises, no publish call is sent and no upload follows the first one that
\* was not answered well.
C32_UploadsThenOnePublish ==
    api_call.op = "publish_uploads" =>
        LET uploads == api_call.uploads
            n == Len(uploads)
            out == api_call.out
        IN  /\ n > 0
            /\ UploadsOk(uploads) =>
                   /\ out.calls = [k \in 1..(n + 1) |->
                                     IF k <= n THEN <<"upload", k>> ELSE <<"publish">>]
                   /\ Len(out.pic_bo) = 2 * n - 1
                   /\ \A k \in 1..n : out.pic_bo[2 * k - 1] = uploads[k].bo
                   /\ \A k \in 1..(n - 1) : out.pic_bo[2 * k] = ","
            /\ (\E k \in 1..n : UploadFailed(uploads[k])) =>
                   /\ out.raised
                   /\ <<"publish">> \notin Range(out.calls)
                   /\ \E k \in 1..n :
                        /\ ~UploadsOk(<<uploads[k]>>)
                        /\ UploadsOk(SubSeq(uploads, 1, k - 1))
                        /\ out.calls = [j \in 1..k |-> <<"upload", j>>]

\* C32 witness: two images, both uploaded, published with the references in the
\* order of the images.
C32_Witness ==
    /\ api_call.op = "publish_uploads"
    /\ Len(api_call.uploads) = 2
    /\ ~api_call.out.raised
    /\ api_call.out.pic_bo = <<"b", ",", "a">>
    /\ api_call.out.tid = "99"

\* The second of two uploads failed: two calls were sent, both uploads.
SecondUploadFailed ==
    /\ api_call.op = "publish_uploads"
    /\ api_call.out.raised
    /\ api_call.out.calls = <<<<"upload", 1>>, <<"upload", 2>>>>

\* C33: get_list never returns the empty list; on an answer that parsed and
\* carries code 0 it returns without raising, and what it returns is the one
\* marker with the text NothingNew exactly when every item of the answer was
\* filtered out (the wall is not the account's own and each item has a comment
\* with the account's display name) or the answer had no item; that marker is not
\* the one a nonzero code gives, which carries the message of the remote.
C33_NeverEmptyList ==
    /\ (ReadDone /\ ~read_call.got.raised) => read_call.got.feeds # <<>>
    /\ ReadList =>
           /\ ~read_call.got.raised
           /\ read_call.got.feeds = <<[error |-> NothingNew]>>
                <=> \A i \in 1..Len(read_call.res.msglist) :
                      /\ read_call.target # qq_account
                      /\ BearsOwnName(read_call.res.msglist[i])
    /\ (ReadDone /\ read_call.res.status_code = 200 /\ read_call.res.json
                 /\ read_call.res.logininfo /\ read_call.res.code # 0)
           => /\ read_call.got.feeds = <<[error |-> read_call.res.message]>>
              /\ read_call.got.feeds # <<[error |-> NothingNew]>>

\* C33 witness: the only item of a friend's wall has a comment of the logged-in
\* account, and get_list returned the marker NothingNew.
C33_Witness ==
    /\ ReadList
    /\ read_call.target = "friend"
    /\ Len(read_call.res.msglist) = 1
    /\ read_call.got.feeds = <<[error |-> NothingNew]>>

\* An entry of the answer that is a feed with all its parts.
WellFormed(feed) ==
    ~feed.null /\ feed.appid = "311" /\ feed.uin # "" /\ feed.key # "" /\ feed.html

\* The like button of the feed says it was liked: the anchor of class
\* qz_like_btn_v3 does, or there is no such anchor and another anchor does.
ShownLiked(feed) ==
    feed.like_btn = "1" \/ (feed.like_btn = "absent" /\ feed.other = "1")

\* The entries of data the claim has returned, in their order.
RECURSIVE Expected(_)
Expected(data) ==
    IF data = <<>> THEN <<>>
    ELSE (IF /\ WellFormed(Head(data))
             /\ (Head(data).uin = qq_account \/ ~ShownLiked(Head(data)))
          THEN <<Head(data)>> ELSE <<>>) \o Expected(Tail(data))

\* C34: of the well-formed feeds of a parsed answer monitor_get_list leaves out
\* exactly the feeds of other accounts whose like button says '1'; every
\* well-formed feed of the account itself is returned, liked or not; the feeds
\* returned keep the order of the answer.
C34_OwnPostsNeverSkipped ==
    (api_call.op = "monitor_get_list" /\ api_call.res.status_code = 200
                                      /\ api_call.res.parsed) =>
        LET kept == Expected(api_call.res.data)
            feeds == api_call.out.feeds
        IN  /\ ~api_call.out.raised
            /\ Len(feeds) = Len(kept)
            /\ \A i \in 1..Len(kept) :
                 /\ feeds[i].target_qq = kept[i].uin
                 /\ feeds[i].tid = kept[i].key
                 /\ feeds[i].liked = "1" => feeds[i].target_qq = qq_account

\* C34 witness: a liked feed of a friend and a liked feed of the account itself
\* were in the answer, and the second alone was returned.
C34_Witness ==
    /\ api_call.op = "monitor_get_list"
    /\ api_call.res.data =
         <<[null |-> FALSE, appid |-> "311", uin |-> "friend", key |-> "k", html |-> TRUE,
            like_btn |-> "1", other |-> "absent"],
           [null |-> FALSE, appid |-> "311", uin |-> qq_account, key |-> "k", html |-> TRUE,
            like_btn |-> "1", other |-> "absent"]>>
    /\ api_call.out.feeds = <<[target_qq |-> qq_account, tid |-> "k", liked |-> "1"]>>

\* An attempt the wrapper accepts: it did not raise and, under check_result, it
\* did not return False.
Acceptable(o, check_result) ==
    o \notin {"raise a", "raise b"} /\ (check_result => o # "False")

\* C35: the wrapper calls the function at most max_retries times; it returns the
\* result of the first acceptable attempt and calls no more; without
\* check_result a False of the first call is returned after that one call; with
\* check_result it never returns False; when no attempt is acceptable it raises
\* after max_retries calls, the last exception an attempt raised or, when none
\* raised, a RuntimeError.
C35_RetryWrapper ==
    api_call.op = "retry" =>
        LET max == api_call.max
            check == api_call.check_result
            o == api_call.outcomes
            out == api_call.out
            good == {k \in 1..max : Acceptable(o[k], check)}
            raises == {k \in 1..max : o[k] \in {"raise a", "raise b"}}
        IN  /\ out.calls <= max
            /\ good # {} =>
                   \E k \in good :
                     /\ \A j \in good : k <= j
                     /\ out.calls = k
                     /\ out.result = o[k]
            /\ good = {} =>
                   /\ out.result = "raised"
                   /\ out.calls = max
                   /\ raises = {} => out.exception = "RuntimeError"
                   /\ raises # {} =>
                          \E k \in raises :
                            /\ \A j \in raises : j <= k
                            /\ out.exception = o[k]
            /\ (~check /\ max > 0 /\ o[1] = "False") =>
                   out.result = "False" /\ out.calls = 1
            /\ check => out.result # "False"

\* C35 witness: under check_result the first attempt raised and the two others
\* returned False: after three calls the wrapper raised the exception of the
\* first.
C35_Witness ==
    /\ api_call.op = "retry"
    /\ api_call.check_result
    /\ api_call.outcomes = <<"raise a", "False", "False">>
    /\ api_call.out = [calls |-> 3, result |-> "raised", exception |-> "raise a"]

\* A round of check_feeds for a friend's feed, on record.
RoundStep ==
    /\ task = "feeds"
    /\ target_qq(Head(feeds_list)) # qq_account
    /\ api_call'.op \in {"round", "skip"}

\* The round on record went through: the model wrote a comment, and comment_feed
\* and like_feed each returned True or were kept out by their gate.
RoundWentThrough ==
    /\ api_call'.op = "round"
    /\ api_call'.llm_ok
    /\ api_call'.comment \in {"skipped", "True"}
    /\ api_call'.like \in {"skipped", "True"}

\* C36: an id enters processed_comments[fid] only in a step whose reply to that
\* comment of that feed returned True; a reply that returned False or raised
\* leaves processed_comments as it was; the id of a friend's feed enters
\* processed_list only in a round in which the model wrote the comment and each
\* of comment_feed and like_feed that was let in returned True; and a round in
\* which one of them returned False or raised leaves the feed out of
\* processed_list, in memory and in the file.
C36_MarksOnlyAfterSuccess ==
    [][/\ \A fid \in Tids, c \in {"c1", "c2", "c3"} :
            (/\ c \in Range(DictGet(processed_comments', fid))
             /\ c \notin Range(DictGet(processed_comments, fid)))
                => /\ task = "reply"
                   /\ api_call'.op = "reply"
                   /\ api_call'.fid = fid /\ api_call'.comment_tid = c
                   /\ ~api_call'.out.raised /\ api_call'.out.ok
       /\ (Replied /\ ~api_call'.out.ok) => UNCHANGED processed_comments
       /\ \A fid \in Tids :
            (fid \in Range(processed_list') /\ fid \notin Range(processed_list))
                => /\ RoundStep
                   /\ RoundWentThrough
                   /\ api_call'.fid = fid /\ Head(feeds_list) = fid
       /\ (RoundStep /\ api_call'.op = "round" /\ ~RoundWentThrough)
                => /\ UNCHANGED processed_list
                   /\ Head(feeds_list) \notin Range(file_processed_list')]_vars

\* C36 witness: in the round for the watched feed the comment was sent and the
\* like raised: the pass is over and the feed is in neither processed_list nor
\* its file.
C36_Witness ==
    /\ api_call = [op |-> "round", fid |-> watched_fid, llm_ok |-> TRUE,
                   comment |-> "True", like |-> "raise"]
    /\ task = "sleep"
    /\ comment_writes = 1
    /\ watched_fid \notin Range(processed_list)
    /\ watched_fid \notin Range(file_processed_list)

\* C37: a round for a friend's feed that went through puts the feed into
\* processed_list and into its file, also when the comment and the like were both
\* kept out by their gates and nothing was written (the writes are counted for
\* the watched feed); and a round that finds the feed in processed_list calls
\* nothing and writes nothing for it.
C37_MarkedEvenWithoutWrites ==
    [][/\ (RoundStep /\ RoundWentThrough)
            => /\ Head(feeds_list) \in Range(processed_list')
               /\ Head(feeds_list) \in Range(file_processed_list')
               /\ (/\ api_call'.comment = "skipped" /\ api_call'.like = "skipped"
                   /\ Head(feeds_list) = watched_fid)
                     => UNCHANGED <<comment_writes, like_writes>>
       /\ (task = "feeds" /\ task' # "cancelled"
             /\ target_qq(Head(feeds_list)) # qq_account
             /\ Head(feeds_list) \in Range(processed_list))
            => /\ api_call'.op = "skip"
               /\ UNCHANGED <<comment_writes, like_writes, processed_list>>]_vars

\* C37 witness: the watched feed was marked in a round that wrote nothing, and a
\* later pass has passed it over: it is in processed_list with no write counted.
C37_Witness ==
    /\ api_call = [op |-> "skip", fid |-> watched_fid]
    /\ watched_fid \in Range(processed_list)
    /\ comment_writes = 0
    /\ like_writes = 0

\* The rounds over the comments of an own feed end: check_feeds goes on to the
\* next feed, or returns.
RepliesEnd ==
    /\ task = "reply"
    /\ task' # "cancelled"
    /\ task' # "reply" \/ feeds_list' # feeds_list

\* C38 as stated: in a pass that reaches an own feed with enable_auto_reply on,
\* every comment of another account not yet replied to gets its reply attempt:
\* when the rounds over the comments end, the comment that was last in the list
\* has just been replied to.
C38_EveryCommentGetsItsAttempt ==
    [][RepliesEnd => /\ Len(list_to_reply) = 1
                     /\ Replied
                     /\ api_call'.comment_tid = Head(list_to_reply).comment_tid]_vars

\* What the code keeps of C38: the comments collected for an own feed are all the
\* comments of others not recorded under the feed, whatever the permissions of
\* the silent period are, and a round that calls reply calls it for the comment at
\* the head of the list.
RepliesNotGatedBySilence ==
    [][/\ (task = "feeds" /\ task' = "reply")
            => /\ Head(feeds_list) \in OwnTids
               /\ list_to_reply' =
                      SelectSeq(comments_list(Head(feeds_list)),
                                LAMBDA c : /\ c.qq_account # qq_account
                                           /\ c.comment_tid \notin
                                                Range(DictGet(processed_comments,
                                                              Head(feeds_list))))
       /\ Replied => api_call'.comment_tid = Head(list_to_reply).comment_tid]_vars

\* A reply was sent in a pass of the silent period, comments not permitted.
RepliedWhileCommentsSilenced ==
    /\ api_call.op = "reply"
    /\ api_call.out.ok
    /\ silent_result = <<TRUE, TRUE, FALSE>>
    /\ processed_comments # <<>>

\* C39: whenever the loop of the monitor is between two passes, after a pass that
\* returned (the sleep of the interval) or raised (the backoff), both files hold
\* what the dicts in memory hold; and when the loop task ends on a cancellation,
\* in a pass or between two, both files hold what the dicts held at that moment.
C39_SavedOnEveryExit ==
    /\ [](task \in {"sleep", "backoff"} =>
            /\ file_processed_list = processed_list
            /\ file_processed_comments = processed_comments)
    /\ [][(task = "cancelled" /\ task' = "none") =>
            /\ file_processed_list' = processed_list
            /\ file_processed_comments' = processed_comments]_vars

\* C39 witness: stop() cancelled a pass among the comments of an own feed, after
\* a reply was recorded; the loop task is over and both files hold marks.
C39_Witness ==
    /\ cancelled_at = "reply"
    /\ task = "none"
    /\ monitor_call = "stop"
    /\ file_processed_comments # <<>>
    /\ file_processed_list # <<>>

\* An exception escaped a pass after a feed was marked, and the files hold the
\* marks during the backoff.
SavedAfterException ==
    /\ task = "backoff"
    /\ processed_list # <<>>
    /\ file_processed_list = processed_list

\* The loop of the sender starts a send: send_scheduled_feed is awaited.
SendStarts == sender_task = "tick" /\ sender_task' = "send"

\* C40: a send is started only when more than 60 seconds have passed since
\* last_send_time, which then becomes the time of that start; no other step,
\* start() and stop() included, changes last_send_time; and no time of a date is
\* sent for twice, so two sends never start less than 60 seconds apart.
C40_SendsAMinuteApart ==
    /\ [][/\ SendStarts => /\ clock - last_send_time > MinuteTicks
                           /\ last_send_time' = clock
                           /\ ~(fired_date = DateOf(clock)
                                  /\ MinuteOf(clock) \in fired_minutes)
          /\ ~SendStarts => UNCHANGED last_send_time]_vars
    /\ [](~refired)

\* C40 witness: the send for the current minute raised, so the minute is still in
\* today's table; the sender was stopped and started again within that minute
\* and the round of the new loop is over without a second send.
C40_Witness ==
    /\ sender_call = "start"
    /\ sender_alive = 1
    /\ sender_task = "sleep"
    /\ send_result = "raised"
    /\ today_send_enabled
    /\ fired_date = DateOf(clock)
    /\ MinuteOf(clock) \in fired_minutes
    /\ loop_current_time = MinuteOf(clock)
    /\ MinuteOf(clock) \in Range(fluctuate_table)
    /\ wake_time = clock + MinuteTicks
    /\ clock - last_send_time <= MinuteTicks

====
